---- MODULE Spec2Model ----
(***************************************************************************)
(* vlink: the shadow (digital twin) Manager of pkg/shadow and the          *)
(* teleoperation alert Handler of pkg/teleoperation, modelled with their   *)
(* locks, their heap objects (Go pointers and maps are references) and the *)
(* callers that run their methods concurrently.                            *)
(***************************************************************************)
EXTENDS Integers, Sequences, FiniteSets, TLC

(* ------------------------------ bounds -------------------------------- *)
\* Producer timestamps range over 0..MaxTimestamp.
MaxTimestamp == 1
\* The wall clock (time.Now()) ranges over 0..MaxTime.
MaxTime == 1
\* Total number of Update calls issued (each allocates one VehicleState).
MaxUpdates == 2
\* Total number of Register calls issued.
MaxListeners == 3
\* Total number of messages the Server's client is asked to publish.
MaxPublished == 2
\* Total number of times the Agent's ticker fires.
MaxTicks == 3
\* Total number of state messages delivered where messages are redelivered.
MaxDeliveries == 3

\* Concurrent callers of the Manager.
Procs == {"p1", "p2"}
\* The caller of the runs in which calls do not overlap.
Callers == {"p1"}
\* Vehicle ids used as keys.
Keys == {"car-001", "car-002"}
Timestamps == 0 .. MaxTimestamp
\* The maxAge durations passed to ActiveVehicles.
Durations == 0 .. MaxTime

\* The listeners (callbacks) that callers register with the Handler.
Observers == {"o1", "o2"}
\* The severities of the alerts that are handled.
Severities == {2, 3}
\* The nil pointer / nil map.
Nil == 0
NoProc == "none"
\* Address of the map allocated by NewManager (m.shadows).
StoreMap == "m.shadows"

VARIABLES
    stateHeap,  \* the *protocol.VehicleState objects callers created, by address
    entryHeap,  \* the *Entry objects the Manager allocated, by address
    maps,       \* the map[string]*Entry objects: m.shadows and the maps All() made
    mu,         \* Manager.mu (sync.RWMutex): its writer and its readers
    now,        \* the wall clock read by time.Now()
    pc,         \* where each caller is inside a Manager method
    arg,        \* the argument of the call each caller is in
    ret,        \* what each caller's last call returned
    applied,    \* per key: the Update calls executed since the last Remove (history)
    listeners,  \* Handler.listeners: the registered AlertListeners, in order
    hmu,        \* Handler.mu (sync.RWMutex): its writer and its readers
    hpc,        \* where each caller is inside a Handler method
    hloc,       \* the locals of the Handler call each caller is in
    client,     \* the mqtt.Client of the Server: its subscriptions and Publish calls
    inbox,      \* the MQTT message the client is about to hand to its handler
    sent,       \* what the last SendControl call returned
    agent       \* the vehicle Agent: its configuration, its Run loop and its client

netVars == <<client, inbox, sent, agent>>
shadowVars == <<stateHeap, entryHeap, maps, mu, now, pc, arg, ret, applied, netVars>>
hubVars == <<listeners, hmu, hpc, hloc, netVars>>
vars == <<stateHeap, entryHeap, maps, mu, now, pc, arg, ret, applied,
          listeners, hmu, hpc, hloc, client, inbox, sent, agent>>

(* ----------------------------- helpers -------------------------------- *)
EmptyMap == [k \in {} |-> Nil]

\* What a caller holds before any read returned to it.
NoRet == [op |-> "none", key |-> "", maxAge |-> 0, e |-> Nil, ok |-> FALSE,
          all |-> NoProc, ids |-> <<>>]

\* The argument slots of a caller that is in no Manager method: the state
\* pointer of Update, the vehicleID of Get and Remove, the maxAge of
\* ActiveVehicles.
NoArg == [state |-> Nil, vehicleID |-> "", maxAge |-> 0]

\* The locals of a caller that is in no Handler method; its alert slot holds
\* the zero value of TeleoperationAlert.
NoLocals == [alert |-> [Severity |-> 0], l |-> "", tier |-> "", ls |-> <<>>, i |-> 0,
             atStart |-> <<>>, invoked |-> <<>>]

\* A JSON payload, by what json.Unmarshal makes of it: kind "object" is a JSON
\* object with the named fields (a field that is absent decodes to the zero
\* value), "garbage" is not JSON, "badtype" is an object holding a value of
\* the wrong type for a field of the target struct.
NoPayload == [kind |-> "none", vehicle_id |-> "", timestamp |-> 0, speed |-> 0,
              severity |-> 0]

\* No message in flight.
NoMsg == [topic |-> <<>>, payload |-> NoPayload]

\* Config.CertFile, KeyFile, CAFile, each by what the path names: "" when the
\* path is not set, else what is found there: a "valid" PEM file, nothing
\* ("missing"), a file that does not parse ("garbage"), and, for the key, a
\* valid key that is not the certificate's ("mismatch").
NoFiles == [CertFile |-> "", KeyFile |-> "", CAFile |-> ""]

\* The nil *tls.Config: no TLS is configured.
NoConfig == [MinVersion |-> "", Certificates |-> 0, RootCAs |-> "", ClientCAs |-> "",
             ClientAuth |-> ""]

\* The Server before Connect: s.client is nil (connected is FALSE) and there
\* is no link to the broker. link is "down" before any connection, "pending"
\* when a connection was made and the on-connect callback has not run yet,
\* "up", "lost" or "closed" (after Disconnect). attempted holds the filters
\* the last connect event passed to Subscribe, err what Connect returned, log
\* the last line the Server wrote with log.Printf.
NoClient == [connected |-> FALSE, link |-> "down", subscribed |-> {},
             attempted |-> {}, published |-> <<>>, err |-> "", log |-> "",
             cfg |-> NoFiles, tls |-> NoConfig]

\* The Agent before New. tickC is the ticker's channel (it buffers one tick),
\* ticks counts the times the ticker fired; received counts the ticks Run took
\* from the channel and attempts lists what each publishState returned
\* (history).
NoAgent == [pc |-> "none", VehicleID |-> "", connected |-> FALSE,
            tickC |-> 0, ticks |-> 0, cancelled |-> FALSE, err |-> "",
            published |-> <<>>, received |-> 0, attempts |-> <<>>,
            cfg |-> NoFiles, tls |-> NoConfig, link |-> "down", connectErr |-> ""]

\* The orders in which a `for ... range` over a Go map may visit the keys S.
RangeOrders(S) ==
    {s \in [1 .. Cardinality(S) -> S] : \A i, j \in DOMAIN s : i # j => s[i] # s[j]}

\* Mutant of MapDelete: the key is not deleted.
MapDeleteNothing(m, k) == m

\* delete(m, k)
MapDelete(m, k) == [j \in (DOMAIN m) \ {k} |-> m[j]]

\* m[k] = v
MapPut(m, k, v) == [j \in (DOMAIN m) \cup {k} |-> IF j = k THEN v ELSE m[j]]

\* m.shadows
shadows == maps[StoreMap]

(* ------------------------------- Init --------------------------------- *)
\* NewManager: an empty map, an unlocked mutex; no caller inside a method.
Init ==
    /\ stateHeap = <<>>
    /\ entryHeap = <<>>
    /\ maps = [a \in {StoreMap} \cup Procs |-> EmptyMap]
    /\ mu = [writer |-> NoProc, readers |-> {}]
    /\ now = 0
    /\ pc = [p \in Procs |-> "idle"]
    /\ arg = [p \in Procs |-> NoArg]
    /\ ret = [p \in Procs |-> NoRet]
    /\ applied = [k \in Keys |-> <<>>]
    /\ listeners = <<>>
    /\ hmu = [writer |-> NoProc, readers |-> {}]
    /\ hpc = [p \in Procs |-> "idle"]
    /\ hloc = [p \in Procs |-> NoLocals]
    /\ client = NoClient
    /\ inbox = NoMsg
    /\ sent = "none"
    /\ agent = NoAgent

(* ------------------------------ clock --------------------------------- *)
Tick ==
    /\ now < MaxTime
    /\ now' = now + 1
    /\ UNCHANGED <<stateHeap, entryHeap, maps, mu, pc, arg, ret, applied>>
    /\ UNCHANGED hubVars

(* ------------------- the code of the Manager's methods ---------------- *)
\* Mutant of CanLock: Lock() excludes nobody.
CanLockAlways == TRUE

\* sync.RWMutex: Lock() proceeds when no writer and no reader holds the mutex,
\* RLock() when no writer holds it.
CanLock == mu.writer = NoProc /\ mu.readers = {}

\* Mutant of CanRLock: RLock() does not wait for the writer.
CanRLockAlways == TRUE

CanRLock == mu.writer = NoProc

\* makeState(id, ts)
MakeState(id, ts) == [VehicleID |-> id, Timestamp |-> ts, Speed |-> 0]

\* Mutant of IsStale: an equal timestamp counts as stale (>= for >).
IsStaleOnTie(m, state) ==
    /\ state.VehicleID \in DOMAIN m
    /\ stateHeap[entryHeap[m[state.VehicleID]].State].Timestamp >= state.Timestamp

\* Mutant of IsStale: nothing is ever stale, the last arrival wins.
IsStaleNever(m, state) == FALSE

\* Mutant of IsStale: staleness is judged against every entry ever written for
\* the key, also the ones a Remove has deleted since (a high-water mark that
\* outlives the entry).
IsStaleRemembers(m, state) ==
    \E e \in DOMAIN entryHeap :
        /\ stateHeap[entryHeap[e].State].VehicleID = state.VehicleID
        /\ stateHeap[entryHeap[e].State].Timestamp > state.Timestamp

\* existing, ok := m.shadows[state.VehicleID]
\* if ok && existing.State.Timestamp > state.Timestamp { return }
IsStale(m, state) ==
    /\ state.VehicleID \in DOMAIN m
    /\ stateHeap[entryHeap[m[state.VehicleID]].State].Timestamp > state.Timestamp

\* Mutant of NewEntry: UpdatedAt is left at its zero value.
NewEntryZeroTime(s, t) == [State |-> s, UpdatedAt |-> 0]

\* &Entry{State: state, UpdatedAt: time.Now()}
NewEntry(s, t) == [State |-> s, UpdatedAt |-> t]

\* m.shadows[state.VehicleID] = &Entry{...}: the entry heap and the store's map
\* after the assignment for the state at address s.
StoreEntryHeap(s) == Append(entryHeap, NewEntry(s, now))

\* Mutant of StoreShadows: the store is replaced by a map holding the incoming
\* key only.
StoreShadowsAlone(s, state) == MapPut(EmptyMap, state.VehicleID, Len(entryHeap) + 1)

\* Mutant of StoreShadows: every state is filed under one and the same key.
StoreShadowsOneKey(s, state) ==
    MapPut(shadows, CHOOSE k \in Keys : TRUE, Len(entryHeap) + 1)

\* The store's map after the assignment.
StoreShadows(s, state) == MapPut(shadows, state.VehicleID, Len(entryHeap) + 1)

\* Mutant of Lookup: a missing key is reported as found.
LookupAlwaysOk(m, k) == [e |-> IF k \in DOMAIN m THEN m[k] ELSE Nil, ok |-> TRUE]

\* e, ok := m.shadows[vehicleID]; a missing key yields (nil, false).
Lookup(m, k) ==
    IF k \in DOMAIN m THEN [e |-> m[k], ok |-> TRUE] ELSE [e |-> Nil, ok |-> FALSE]

\* return e, ok
GetResult(k) ==
    [NoRet EXCEPT !.op = "Get", !.key = k,
                  !.e = Lookup(shadows, k).e, !.ok = Lookup(shadows, k).ok]

\* Mutant of CopyMap: the loop that fills the result is missing.
CopyMapEmpty(m) == EmptyMap

\* result := make(map[string]*Entry, len(m.shadows))
\* for id, e := range m.shadows { result[id] = e }
CopyMap(m) == [id \in DOMAIN m |-> m[id]]

\* Mutant of AllResult: All hands out m.shadows itself.
AllResultLive(p) == StoreMap

\* The map object All returns: the map made by the call (named after the caller
\* holding it), not m.shadows.
AllResult(p) == p

\* cutoff := time.Now().Add(-maxAge)
Cutoff(t, maxAge) == t - maxAge

\* Mutant of IsActive: an entry updated exactly at the cutoff counts as active.
IsActiveAtCutoff(e, cutoff) == entryHeap[e].UpdatedAt >= cutoff

\* e.UpdatedAt.After(cutoff)
IsActive(e, cutoff) == entryHeap[e].UpdatedAt > cutoff

\* Mutant of ActiveIds: the loop visits every entry the Manager ever made, also
\* the ones Remove has deleted from the map.
ActiveIdsOfAllEntries(maxAge) ==
    {id \in Keys : \E e \in DOMAIN entryHeap :
        /\ stateHeap[entryHeap[e].State].VehicleID = id
        /\ IsActive(e, Cutoff(now, maxAge))}

\* The keys the loop of ActiveVehicles appends to ids.
ActiveIds(maxAge) ==
    {id \in DOMAIN shadows : IsActive(shadows[id], Cutoff(now, maxAge))}

\* return ids
ActiveVehiclesResult(maxAge, ids) ==
    [NoRet EXCEPT !.op = "ActiveVehicles", !.maxAge = maxAge, !.ids = ids]

\* History: the Update calls executed on each key since its last Remove.
Executed(k, s) == [applied EXCEPT ![k] = Append(@, [st |-> s, at |-> now])]
Forgotten(k) == [applied EXCEPT ![k] = <<>>]

(* --------------- Spec: each call runs as one atomic step --------------- *)
(* Every method holds m.mu from its first statement to its return, so a    *)
(* call is one step here: Lock/RLock, the body, the deferred unlock.       *)

\* m.Update(makeState(k, ts))
Update(p, k, ts) ==
    /\ pc[p] = "idle" /\ CanLock
    /\ Len(stateHeap) < MaxUpdates
    /\ LET s == Len(stateHeap) + 1
           state == MakeState(k, ts)
       IN  /\ stateHeap' = Append(stateHeap, state)
           /\ IF IsStale(shadows, state)
              THEN UNCHANGED <<entryHeap, maps>>
              ELSE /\ entryHeap' = StoreEntryHeap(s)
                   /\ maps' = [maps EXCEPT ![StoreMap] = StoreShadows(s, state)]
           /\ applied' = Executed(k, s)
    /\ UNCHANGED <<mu, now, pc, arg, ret>>
    /\ UNCHANGED hubVars

\* e, ok := m.Get(k)
Get(p, k) ==
    /\ pc[p] = "idle" /\ CanRLock
    /\ ret' = [ret EXCEPT ![p] = GetResult(k)]
    /\ UNCHANGED <<stateHeap, entryHeap, maps, mu, now, pc, arg, applied>>
    /\ UNCHANGED hubVars

\* all := m.All()
All(p) ==
    /\ pc[p] = "idle" /\ CanRLock
    /\ maps' = [maps EXCEPT ![p] = CopyMap(shadows)]
    /\ ret' = [ret EXCEPT ![p] = [NoRet EXCEPT !.op = "All", !.all = AllResult(p)]]
    /\ UNCHANGED <<stateHeap, entryHeap, mu, now, pc, arg, applied>>
    /\ UNCHANGED hubVars

\* The caller deletes a key from the map All returned to it: delete(all, k).
EditReturnedMap(p, k) ==
    /\ pc[p] = "idle"
    /\ ret[p].op = "All"
    /\ k \in DOMAIN maps[ret[p].all]
    /\ maps' = [maps EXCEPT ![ret[p].all] = MapDelete(@, k)]
    /\ UNCHANGED <<stateHeap, entryHeap, mu, now, pc, arg, ret, applied>>
    /\ UNCHANGED hubVars

\* ids := m.ActiveVehicles(d)
ActiveVehicles(p, d) ==
    /\ pc[p] = "idle" /\ CanRLock
    /\ \E ids \in RangeOrders(ActiveIds(d)) :
          ret' = [ret EXCEPT ![p] = ActiveVehiclesResult(d, ids)]
    /\ UNCHANGED <<stateHeap, entryHeap, maps, mu, now, pc, arg, applied>>
    /\ UNCHANGED hubVars

\* m.Remove(k)
Remove(p, k) ==
    /\ pc[p] = "idle" /\ CanLock
    /\ maps' = [maps EXCEPT ![StoreMap] = MapDelete(@, k)]
    /\ applied' = Forgotten(k)
    /\ UNCHANGED <<stateHeap, entryHeap, mu, now, pc, arg, ret>>
    /\ UNCHANGED hubVars

\* Spec: a caller that updates, removes and queries single vehicles and the
\* active ones, keeping the last result returned to it.
Next ==
    \/ Tick
    \/ \E p \in Callers, k \in Keys, ts \in Timestamps : Update(p, k, ts)
    \/ \E p \in Callers, k \in Keys : Get(p, k)
    \/ \E p \in Callers, d \in Durations : ActiveVehicles(p, d)
    \/ \E p \in Callers, k \in Keys : Remove(p, k)

Spec == Init /\ [][Next]_vars

\* SpecAll: a caller that updates and removes vehicles and takes snapshots
\* with All(), keeping and editing the last map returned to it.
NextAll ==
    \/ Tick
    \/ \E p \in Callers, k \in Keys, ts \in Timestamps : Update(p, k, ts)
    \/ \E p \in Callers : All(p)
    \/ \E p \in Callers, k \in Keys : EditReturnedMap(p, k)
    \/ \E p \in Callers, k \in Keys : Remove(p, k)

SpecAll == Init /\ [][NextAll]_vars

(* ---- SpecAlias: a caller that writes through the pointers it holds ---- *)
(* Update keeps the *VehicleState pointer it was passed and Get returns the  *)
(* *Entry pointer kept in m.shadows; VehicleState and Entry have exported  *)
(* fields, so the caller can write through both.                           *)

\* The caller assigns to fields of a state it passed to Update earlier:
\* state.VehicleID = id; state.Timestamp = ts.
CallerWritesState(p, s, id, ts) ==
    /\ pc[p] = "idle"
    /\ s \in DOMAIN stateHeap
    /\ stateHeap[s] # MakeState(id, ts)
    /\ stateHeap' = [stateHeap EXCEPT ![s] = MakeState(id, ts)]
    /\ UNCHANGED <<entryHeap, maps, mu, now, pc, arg, ret, applied>>
    /\ UNCHANGED hubVars

\* The caller assigns to a field of the entry Get returned to it:
\* e.UpdatedAt = t.
CallerWritesEntry(p, t) ==
    /\ pc[p] = "idle"
    /\ ret[p].op = "Get" /\ ret[p].ok
    /\ entryHeap[ret[p].e].UpdatedAt # t
    /\ entryHeap' = [entryHeap EXCEPT ![ret[p].e].UpdatedAt = t]
    /\ UNCHANGED <<stateHeap, maps, mu, now, pc, arg, ret, applied>>
    /\ UNCHANGED hubVars

NextAlias ==
    \/ Tick
    \/ \E p \in Callers, k \in Keys, ts \in Timestamps : Update(p, k, ts)
    \/ \E p \in Callers, k \in Keys : Get(p, k)
    \/ \E p \in Callers, k \in Keys : Remove(p, k)
    \/ \E p \in Callers, s \in 1 .. MaxUpdates, k \in Keys, ts \in Timestamps :
          CallerWritesState(p, s, k, ts)
    \/ \E p \in Callers, t \in 0 .. MaxTime : CallerWritesEntry(p, t)

SpecAlias == Init /\ [][NextAlias]_vars

(* --------- SpecConc: overlapping calls, one step per lock event -------- *)
(* Each caller is at one place of one method: waiting for m.mu (..Lock),   *)
(* inside the critical section (..Check, ..Store, ..Body) or about to run  *)
(* the deferred unlock (..Unlock). The clock stands still in these runs:   *)
(* they are about the order of lock events, not about time.               *)

CallUpdate(p, k, ts) ==
    /\ pc[p] = "idle"
    /\ Len(stateHeap) < MaxUpdates
    /\ stateHeap' = Append(stateHeap, MakeState(k, ts))
    /\ arg' = [arg EXCEPT ![p] = [NoArg EXCEPT !.state = Len(stateHeap) + 1]]
    /\ pc' = [pc EXCEPT ![p] = "UpdateLock"]
    /\ UNCHANGED <<entryHeap, maps, mu, now, ret, applied>>
    /\ UNCHANGED hubVars

CallGet(p, k) ==
    /\ pc[p] = "idle"
    /\ arg' = [arg EXCEPT ![p] = [NoArg EXCEPT !.vehicleID = k]]
    /\ pc' = [pc EXCEPT ![p] = "GetLock"]
    /\ UNCHANGED <<stateHeap, entryHeap, maps, mu, now, ret, applied>>
    /\ UNCHANGED hubVars

CallAll(p) ==
    /\ pc[p] = "idle"
    /\ pc' = [pc EXCEPT ![p] = "AllLock"]
    /\ UNCHANGED <<stateHeap, entryHeap, maps, mu, now, arg, ret, applied>>
    /\ UNCHANGED hubVars

CallActiveVehicles(p, d) ==
    /\ pc[p] = "idle"
    /\ arg' = [arg EXCEPT ![p] = [NoArg EXCEPT !.maxAge = d]]
    /\ pc' = [pc EXCEPT ![p] = "ActiveVehiclesLock"]
    /\ UNCHANGED <<stateHeap, entryHeap, maps, mu, now, ret, applied>>
    /\ UNCHANGED hubVars

CallRemove(p, k) ==
    /\ pc[p] = "idle"
    /\ arg' = [arg EXCEPT ![p] = [NoArg EXCEPT !.vehicleID = k]]
    /\ pc' = [pc EXCEPT ![p] = "RemoveLock"]
    /\ UNCHANGED <<stateHeap, entryHeap, maps, mu, now, ret, applied>>
    /\ UNCHANGED hubVars

\* m.mu.Lock()
Lock(p) ==
    /\ pc[p] \in {"UpdateLock", "RemoveLock"}
    /\ CanLock
    /\ mu' = [mu EXCEPT !.writer = p]
    /\ pc' = [pc EXCEPT ![p] = IF pc[p] = "UpdateLock" THEN "UpdateCheck" ELSE "RemoveBody"]
    /\ UNCHANGED <<stateHeap, entryHeap, maps, now, arg, ret, applied>>
    /\ UNCHANGED hubVars

\* m.mu.RLock()
RLock(p) ==
    /\ pc[p] \in {"GetLock", "AllLock", "ActiveVehiclesLock"}
    /\ CanRLock
    /\ mu' = [mu EXCEPT !.readers = @ \cup {p}]
    /\ pc' = [pc EXCEPT ![p] = CASE pc[p] = "GetLock" -> "GetBody"
                                 [] pc[p] = "AllLock" -> "AllBody"
                                 [] OTHER -> "ActiveVehiclesBody"]
    /\ UNCHANGED <<stateHeap, entryHeap, maps, now, arg, ret, applied>>
    /\ UNCHANGED hubVars

\* Mutant of UpdateCheck: the early return on a stale state leaves m.mu locked
\* (an explicit Unlock before line 45 instead of the deferred one).
UpdateCheckLeavesLocked(p) ==
    /\ pc[p] = "UpdateCheck"
    /\ IF IsStale(shadows, stateHeap[arg[p].state])
       THEN /\ pc' = [pc EXCEPT ![p] = "idle"]
            /\ arg' = [arg EXCEPT ![p] = NoArg]
            /\ applied' = Executed(stateHeap[arg[p].state].VehicleID, arg[p].state)
       ELSE /\ pc' = [pc EXCEPT ![p] = "UpdateStore"]
            /\ UNCHANGED <<arg, applied>>
    /\ UNCHANGED <<stateHeap, entryHeap, maps, mu, now, ret>>
    /\ UNCHANGED hubVars

\* Update, lines 39-43: look the key up, return at once on a stale state.
UpdateCheck(p) ==
    /\ pc[p] = "UpdateCheck"
    /\ IF IsStale(shadows, stateHeap[arg[p].state])
       THEN /\ pc' = [pc EXCEPT ![p] = "UpdateUnlock"]
            /\ applied' = Executed(stateHeap[arg[p].state].VehicleID, arg[p].state)
       ELSE /\ pc' = [pc EXCEPT ![p] = "UpdateStore"]
            /\ UNCHANGED applied
    /\ UNCHANGED <<stateHeap, entryHeap, maps, mu, now, arg, ret>>
    /\ UNCHANGED hubVars

\* Update, lines 45-48: store the new entry.
UpdateStore(p) ==
    /\ pc[p] = "UpdateStore"
    /\ entryHeap' = StoreEntryHeap(arg[p].state)
    /\ maps' = [maps EXCEPT ![StoreMap] = StoreShadows(arg[p].state, stateHeap[arg[p].state])]
    /\ applied' = Executed(stateHeap[arg[p].state].VehicleID, arg[p].state)
    /\ pc' = [pc EXCEPT ![p] = "UpdateUnlock"]
    /\ UNCHANGED <<stateHeap, mu, now, arg, ret>>
    /\ UNCHANGED hubVars

GetBody(p) ==
    /\ pc[p] = "GetBody"
    /\ ret' = [ret EXCEPT ![p] = GetResult(arg[p].vehicleID)]
    /\ pc' = [pc EXCEPT ![p] = "GetUnlock"]
    /\ UNCHANGED <<stateHeap, entryHeap, maps, mu, now, arg, applied>>
    /\ UNCHANGED hubVars

AllBody(p) ==
    /\ pc[p] = "AllBody"
    /\ maps' = [maps EXCEPT ![p] = CopyMap(shadows)]
    /\ ret' = [ret EXCEPT ![p] = [NoRet EXCEPT !.op = "All", !.all = AllResult(p)]]
    /\ pc' = [pc EXCEPT ![p] = "AllUnlock"]
    /\ UNCHANGED <<stateHeap, entryHeap, mu, now, arg, applied>>
    /\ UNCHANGED hubVars

ActiveVehiclesBody(p) ==
    /\ pc[p] = "ActiveVehiclesBody"
    /\ \E ids \in RangeOrders(ActiveIds(arg[p].maxAge)) :
          ret' = [ret EXCEPT ![p] = ActiveVehiclesResult(arg[p].maxAge, ids)]
    /\ pc' = [pc EXCEPT ![p] = "ActiveVehiclesUnlock"]
    /\ UNCHANGED <<stateHeap, entryHeap, maps, mu, now, arg, applied>>
    /\ UNCHANGED hubVars

RemoveBody(p) ==
    /\ pc[p] = "RemoveBody"
    /\ maps' = [maps EXCEPT ![StoreMap] = MapDelete(@, arg[p].vehicleID)]
    /\ applied' = Forgotten(arg[p].vehicleID)
    /\ pc' = [pc EXCEPT ![p] = "RemoveUnlock"]
    /\ UNCHANGED <<stateHeap, entryHeap, mu, now, arg, ret>>
    /\ UNCHANGED hubVars

\* defer m.mu.Unlock(), run as Update or Remove returns.
Unlock(p) ==
    /\ pc[p] \in {"UpdateUnlock", "RemoveUnlock"}
    /\ mu' = [mu EXCEPT !.writer = NoProc]
    /\ pc' = [pc EXCEPT ![p] = "idle"]
    /\ arg' = [arg EXCEPT ![p] = NoArg]
    /\ UNCHANGED <<stateHeap, entryHeap, maps, now, ret, applied>>
    /\ UNCHANGED hubVars

\* defer m.mu.RUnlock(), run as Get, All or ActiveVehicles returns; the caller
\* of these runs uses the result at once and keeps no reference to it.
RUnlock(p) ==
    /\ pc[p] \in {"GetUnlock", "AllUnlock", "ActiveVehiclesUnlock"}
    /\ mu' = [mu EXCEPT !.readers = @ \ {p}]
    /\ pc' = [pc EXCEPT ![p] = "idle"]
    /\ arg' = [arg EXCEPT ![p] = NoArg]
    /\ ret' = [ret EXCEPT ![p] = NoRet]
    /\ maps' = [maps EXCEPT ![p] = EmptyMap]
    /\ UNCHANGED <<stateHeap, entryHeap, now, applied>>
    /\ UNCHANGED hubVars

NextConc ==
    \/ \E p \in Procs, k \in Keys, ts \in Timestamps : CallUpdate(p, k, ts)
    \/ \E p \in Procs, k \in Keys : CallGet(p, k)
    \/ \E p \in Procs : CallAll(p)
    \/ \E p \in Procs, d \in Durations : CallActiveVehicles(p, d)
    \/ \E p \in Procs, k \in Keys : CallRemove(p, k)
    \/ \E p \in Procs : Lock(p)
    \/ \E p \in Procs : RLock(p)
    \/ \E p \in Procs : UpdateCheck(p)
    \/ \E p \in Procs : UpdateStore(p)
    \/ \E p \in Procs : GetBody(p)
    \/ \E p \in Procs : AllBody(p)
    \/ \E p \in Procs : ActiveVehiclesBody(p)
    \/ \E p \in Procs : RemoveBody(p)
    \/ \E p \in Procs : Unlock(p)
    \/ \E p \in Procs : RUnlock(p)

SpecConc == Init /\ [][NextConc]_vars

\* SpecConcFair: the overlapping calls under fair scheduling. A caller inside a
\* method keeps running (weak fairness of its steps), and sync.RWMutex lets
\* no Lock() or RLock() wait forever while the mutex keeps being released
\* (strong fairness of the two acquisitions). Each of these steps moves the
\* caller, so a step that is taken is a step that changes pc.
SpecConcFair ==
    /\ Init /\ [][NextConc]_vars
    /\ \A p \in Procs :
          /\ SF_pc(Lock(p))
          /\ SF_pc(RLock(p))
          /\ WF_pc(UpdateCheck(p))
          /\ WF_pc(UpdateStore(p))
          /\ WF_pc(GetBody(p))
          /\ WF_pc(AllBody(p))
          /\ WF_pc(ActiveVehiclesBody(p))
          /\ WF_pc(RemoveBody(p))
          /\ WF_pc(Unlock(p))
          /\ WF_pc(RUnlock(p))

(* ------------- SpecHub: the teleoperation alert Handler --------------- *)
\* if alert.Severity >= 3
CriticalSeverity == 3

NewAlert(severity) == [Severity |-> severity]

\* Mutant of LogTier: the threshold is exclusive (> for >=).
LogTierStrict(alert) == IF alert.Severity > CriticalSeverity THEN "CRITICAL" ELSE "WARN"

\* The log line Handle prints for an alert.
LogTier(alert) == IF alert.Severity >= CriticalSeverity THEN "CRITICAL" ELSE "WARN"

\* Register calls issued so far: the ones that appended and the ones under way.
Registering == {p \in Procs : hpc[p] \in {"RegisterLock", "RegisterAppend", "RegisterUnlock"}}

\* h.Register(l)
CallRegister(p, l) ==
    /\ hpc[p] = "idle"
    /\ Len(listeners) + Cardinality(Registering) < MaxListeners
    /\ hloc' = [hloc EXCEPT ![p] = [NoLocals EXCEPT !.l = l]]
    /\ hpc' = [hpc EXCEPT ![p] = "RegisterLock"]
    /\ UNCHANGED <<listeners, hmu>>
    /\ UNCHANGED shadowVars

\* h.mu.Lock()
RegisterLock(p) ==
    /\ hpc[p] = "RegisterLock"
    /\ hmu.writer = NoProc /\ hmu.readers = {}
    /\ hmu' = [hmu EXCEPT !.writer = p]
    /\ hpc' = [hpc EXCEPT ![p] = "RegisterAppend"]
    /\ UNCHANGED <<listeners, hloc>>
    /\ UNCHANGED shadowVars

\* Mutant of RegisterAppend: a listener that is already registered is not
\* appended again.
RegisterAppendDedup(p) ==
    /\ hpc[p] = "RegisterAppend"
    /\ listeners' = IF \E j \in DOMAIN listeners : listeners[j] = hloc[p].l
                    THEN listeners
                    ELSE Append(listeners, hloc[p].l)
    /\ hpc' = [hpc EXCEPT ![p] = "RegisterUnlock"]
    /\ UNCHANGED <<hmu, hloc>>
    /\ UNCHANGED shadowVars

\* h.listeners = append(h.listeners, l)
RegisterAppend(p) ==
    /\ hpc[p] = "RegisterAppend"
    /\ listeners' = Append(listeners, hloc[p].l)
    /\ hpc' = [hpc EXCEPT ![p] = "RegisterUnlock"]
    /\ UNCHANGED <<hmu, hloc>>
    /\ UNCHANGED shadowVars

\* defer h.mu.Unlock(), run as Register returns.
RegisterUnlock(p) ==
    /\ hpc[p] = "RegisterUnlock"
    /\ hmu' = [hmu EXCEPT !.writer = NoProc]
    /\ hpc' = [hpc EXCEPT ![p] = "idle"]
    /\ hloc' = [hloc EXCEPT ![p] = NoLocals]
    /\ UNCHANGED listeners
    /\ UNCHANGED shadowVars

\* h.Handle(alert); atStart remembers the listeners registered as the call
\* starts (history).
CallHandle(p, severity) ==
    /\ hpc[p] = "idle"
    /\ hloc' = [hloc EXCEPT ![p] = [NoLocals EXCEPT !.alert = NewAlert(severity),
                                                    !.atStart = listeners]]
    /\ hpc' = [hpc EXCEPT ![p] = "HandleLog"]
    /\ UNCHANGED <<listeners, hmu>>
    /\ UNCHANGED shadowVars

\* Handle, lines 40-46: log the alert at its tier.
HandleLog(p) ==
    /\ hpc[p] = "HandleLog"
    /\ hloc' = [hloc EXCEPT ![p].tier = LogTier(hloc[p].alert)]
    /\ hpc' = [hpc EXCEPT ![p] = "HandleRLock"]
    /\ UNCHANGED <<listeners, hmu>>
    /\ UNCHANGED shadowVars

\* h.mu.RLock()
HandleRLock(p) ==
    /\ hpc[p] = "HandleRLock"
    /\ hmu.writer = NoProc
    /\ hmu' = [hmu EXCEPT !.readers = @ \cup {p}]
    /\ hpc' = [hpc EXCEPT ![p] = "HandleCopy"]
    /\ UNCHANGED <<listeners, hloc>>
    /\ UNCHANGED shadowVars

\* ls := make([]AlertListener, len(h.listeners)); copy(ls, h.listeners)
Snapshot(ls) == [j \in 1 .. Len(ls) |-> ls[j]]

\* Mutant of HandleCopy: the listeners are moved out of the Handler instead of
\* copied (ls := h.listeners; h.listeners = nil).
HandleCopyDrains(p) ==
    /\ hpc[p] = "HandleCopy"
    /\ hloc' = [hloc EXCEPT ![p].ls = Snapshot(listeners)]
    /\ listeners' = <<>>
    /\ hpc' = [hpc EXCEPT ![p] = "HandleRUnlock"]
    /\ UNCHANGED hmu
    /\ UNCHANGED shadowVars

\* Mutant of HandleCopy: the copy is kept in a field of the Handler that all
\* Handle calls share, instead of a local of the call.
HandleCopyShared(p) ==
    /\ hpc[p] = "HandleCopy"
    /\ hloc' = [q \in Procs |-> [hloc[q] EXCEPT !.ls = Snapshot(listeners)]]
    /\ hpc' = [hpc EXCEPT ![p] = "HandleRUnlock"]
    /\ UNCHANGED <<listeners, hmu>>
    /\ UNCHANGED shadowVars

HandleCopy(p) ==
    /\ hpc[p] = "HandleCopy"
    /\ hloc' = [hloc EXCEPT ![p].ls = Snapshot(listeners)]
    /\ hpc' = [hpc EXCEPT ![p] = "HandleRUnlock"]
    /\ UNCHANGED <<listeners, hmu>>
    /\ UNCHANGED shadowVars

\* Mutant of HandleRUnlock: the read lock is kept while the listeners run (the
\* RUnlock deferred to the return of Handle).
HandleRUnlockDeferred(p) ==
    /\ hpc[p] = "HandleRUnlock"
    /\ hloc' = [hloc EXCEPT ![p].i = 1]
    /\ hpc' = [hpc EXCEPT ![p] = "HandleLoop"]
    /\ UNCHANGED <<listeners, hmu>>
    /\ UNCHANGED shadowVars

\* h.mu.RUnlock(); the range loop starts at the first element.
HandleRUnlock(p) ==
    /\ hpc[p] = "HandleRUnlock"
    /\ hmu' = [hmu EXCEPT !.readers = @ \ {p}]
    /\ hloc' = [hloc EXCEPT ![p].i = 1]
    /\ hpc' = [hpc EXCEPT ![p] = "HandleLoop"]
    /\ UNCHANGED listeners
    /\ UNCHANGED shadowVars

\* Mutant of LoopHasNext: the loop stops before the last listener.
LoopSkipsLast(i, ls) == i < Len(ls)

\* for _, l := range ls: is there another element?
LoopHasNext(i, ls) == i <= Len(ls)

\* Mutant of HandleLoop: the loop ranges over h.listeners itself, by index,
\* instead of the copy taken under the lock.
HandleLoopLive(p) ==
    /\ hpc[p] = "HandleLoop"
    /\ IF LoopHasNext(hloc[p].i, listeners)
       THEN /\ hloc' = [hloc EXCEPT ![p].invoked = Append(@, listeners[hloc[p].i])]
            /\ hpc' = [hpc EXCEPT ![p] = "HandleInvoke"]
       ELSE /\ hpc' = [hpc EXCEPT ![p] = "HandleDone"]
            /\ UNCHANGED hloc
    /\ UNCHANGED <<listeners, hmu>>
    /\ UNCHANGED shadowVars

\* for _, l := range ls { l(alert) }: enter the next listener, or leave the loop.
HandleLoop(p) ==
    /\ hpc[p] = "HandleLoop"
    /\ IF LoopHasNext(hloc[p].i, hloc[p].ls)
       THEN /\ hloc' = [hloc EXCEPT ![p].invoked = Append(@, hloc[p].ls[hloc[p].i])]
            /\ hpc' = [hpc EXCEPT ![p] = "HandleInvoke"]
       ELSE /\ hpc' = [hpc EXCEPT ![p] = "HandleDone"]
            /\ UNCHANGED hloc
    /\ UNCHANGED <<listeners, hmu>>
    /\ UNCHANGED shadowVars

\* l(alert) returns; the loop moves to the next element.
ListenerReturn(p) ==
    /\ hpc[p] = "HandleInvoke"
    /\ hloc' = [hloc EXCEPT ![p].i = @ + 1]
    /\ hpc' = [hpc EXCEPT ![p] = "HandleLoop"]
    /\ UNCHANGED <<listeners, hmu>>
    /\ UNCHANGED shadowVars

\* Handle returns to its caller.
HandleReturn(p) ==
    /\ hpc[p] = "HandleDone"
    /\ hloc' = [hloc EXCEPT ![p] = NoLocals]
    /\ hpc' = [hpc EXCEPT ![p] = "idle"]
    /\ UNCHANGED <<listeners, hmu>>
    /\ UNCHANGED shadowVars

NextHub ==
    \/ \E p \in Procs, l \in Observers : CallRegister(p, l)
    \/ \E p \in Procs : RegisterLock(p)
    \/ \E p \in Procs : RegisterAppend(p)
    \/ \E p \in Procs : RegisterUnlock(p)
    \/ \E p \in Procs, severity \in Severities : CallHandle(p, severity)
    \/ \E p \in Procs : HandleLog(p)
    \/ \E p \in Procs : HandleRLock(p)
    \/ \E p \in Procs : HandleCopy(p)
    \/ \E p \in Procs : HandleRUnlock(p)
    \/ \E p \in Procs : HandleLoop(p)
    \/ \E p \in Procs : ListenerReturn(p)
    \/ \E p \in Procs : HandleReturn(p)

SpecHub == Init /\ [][NextHub]_vars

\* SpecHubFair: the Handler under fair scheduling. The steps of Register and
\* Handle themselves keep running (weak fairness) and sync.RWMutex lets no
\* Lock() or RLock() wait forever while the mutex keeps being released (strong
\* fairness); nothing is assumed of the listeners, which may never return.
SpecHubFair ==
    /\ Init /\ [][NextHub]_vars
    /\ \A p \in Procs :
          /\ SF_hpc(RegisterLock(p))
          /\ SF_hpc(HandleRLock(p))
          /\ WF_hpc(RegisterAppend(p))
          /\ WF_hpc(RegisterUnlock(p))
          /\ WF_hpc(HandleLog(p))
          /\ WF_hpc(HandleCopy(p))
          /\ WF_hpc(HandleRUnlock(p))
          /\ WF_hpc(HandleLoop(p))
          /\ WF_hpc(HandleReturn(p))

(* ------ SpecHubSeq: one caller, any severity, listeners that panic ----- *)
\* The severities an alert may carry (int32): the ends of the range, values
\* below 1 and above 3, and the values around the threshold.
AnySeverity == {-2147483647 - 1, -1, 0, 1, 2, 3, 4, 2147483647}

\* Mutant of ListenerPanic: the panic of a listener is contained and the next
\* listener of the copy, if any, is called.
ListenerPanicContained(p) ==
    /\ hpc[p] = "HandleInvoke"
    /\ IF hloc[p].i < Len(hloc[p].ls)
       THEN /\ hloc' = [hloc EXCEPT ![p].i = @ + 1,
                                    ![p].invoked = Append(@, hloc[p].ls[hloc[p].i + 1])]
            /\ UNCHANGED hpc
       ELSE /\ hloc' = [hloc EXCEPT ![p].i = @ + 1]
            /\ hpc' = [hpc EXCEPT ![p] = "HandleDone"]
    /\ UNCHANGED <<listeners, hmu>>
    /\ UNCHANGED shadowVars

\* l(alert) panics. Handle has no recover and no deferred call, and neither
\* has any caller of it: the panic leaves Handle and ends the program.
ListenerPanic(p) ==
    /\ hpc[p] = "HandleInvoke"
    /\ hpc' = [hpc EXCEPT ![p] = "HandlePanic"]
    /\ UNCHANGED <<listeners, hmu, hloc>>
    /\ UNCHANGED shadowVars

NextHubSeq ==
    \/ \E p \in Callers, l \in Observers : CallRegister(p, l)
    \/ \E p \in Callers : RegisterLock(p)
    \/ \E p \in Callers : RegisterAppend(p)
    \/ \E p \in Callers : RegisterUnlock(p)
    \/ \E p \in Callers, severity \in AnySeverity : CallHandle(p, severity)
    \/ \E p \in Callers : HandleLog(p)
    \/ \E p \in Callers : HandleRLock(p)
    \/ \E p \in Callers : HandleCopy(p)
    \/ \E p \in Callers : HandleRUnlock(p)
    \/ \E p \in Callers : HandleLoop(p)
    \/ \E p \in Callers : ListenerReturn(p)
    \/ \E p \in Callers : ListenerPanic(p)
    \/ \E p \in Callers : HandleReturn(p)

SpecHubSeq == Init /\ [][NextHubSeq]_vars

(* ---------- SpecServer: the control center's MQTT handlers ------------- *)
(* The Server owns one shadow Manager and one alert Handler. Its client     *)
(* hands it one message at a time; a message goes to the handler that was   *)
(* subscribed with the filter its topic matches.                            *)

\* const topicPrefix = "v1/vehicle"; a topic is the sequence of its levels.
topicPrefix == <<"v1", "vehicle">>

\* fmt.Sprintf("%s/%s/state", topicPrefix, vehicleID)
StateTopic(vehicleID) == topicPrefix \o <<vehicleID, "state">>

\* fmt.Sprintf("%s/%s/control", topicPrefix, vehicleID)
ControlTopic(vehicleID) == topicPrefix \o <<vehicleID, "control">>

\* fmt.Sprintf("%s/%s/alert", topicPrefix, vehicleID)
AlertTopic(vehicleID) == topicPrefix \o <<vehicleID, "alert">>

\* fmt.Sprintf("%s/+/state", topicPrefix)
WildcardStateTopic == topicPrefix \o <<"+", "state">>

\* fmt.Sprintf("%s/+/alert", topicPrefix)
WildcardAlertTopic == topicPrefix \o <<"+", "alert">>

\* The broker-side wildcard: "+" stands for exactly one level.
TopicMatches(filter, topic) ==
    /\ Len(filter) = Len(topic)
    /\ \A i \in DOMAIN filter : filter[i] \in {"+", topic[i]}

\* The payloads on the wire: JSON objects of state messages and of alert
\* messages, bytes that are not JSON, and objects whose timestamp is a string.
StatePayloads(speeds) ==
    {[NoPayload EXCEPT !.kind = "object", !.vehicle_id = k, !.timestamp = ts,
                       !.speed = v] :
        k \in Keys, ts \in Timestamps, v \in speeds}
AlertPayloads ==
    {[NoPayload EXCEPT !.kind = "object", !.vehicle_id = k, !.severity = sv] :
        k \in Keys, sv \in {0} \cup Severities}
Malformed ==
    {[NoPayload EXCEPT !.kind = "garbage"]} \cup
    {[NoPayload EXCEPT !.kind = "badtype", !.vehicle_id = k] : k \in Keys}

\* Mutant of UnmarshalErr: only bytes that are not JSON are an error.
UnmarshalErrSyntaxOnly(payload) == payload.kind = "garbage"

\* json.Unmarshal(data, v) returns an error unless data is a JSON object whose
\* values fit the fields of v.
UnmarshalErr(payload) == payload.kind # "object"

\* Mutant of UnmarshalState: the timestamp of the payload is not decoded.
UnmarshalStateNoTimestamp(payload) ==
    [VehicleID |-> payload.vehicle_id, Timestamp |-> 0, Speed |-> payload.speed]

\* json.Unmarshal into a *VehicleState: the fields are found by their tags.
UnmarshalState(payload) ==
    [VehicleID |-> payload.vehicle_id, Timestamp |-> payload.timestamp,
     Speed |-> payload.speed]

\* json.Unmarshal into a *TeleoperationAlert.
UnmarshalAlert(payload) == [Severity |-> payload.severity]

\* Mutant of StateKey: the vehicle is read off the topic the message came on.
StateKeyFromTopic(msg) == msg.topic[Len(topicPrefix) + 1]

\* The key handleState's Update files the message under: state.VehicleID of
\* the decoded payload; msg.Topic() is used for the log line only.
StateKey(msg) == UnmarshalState(msg.payload).VehicleID

\* The map subscribeTopics ranges over: filter -> handler.
Topics == {WildcardStateTopic, WildcardAlertTopic}

\* Mutant of SubscribeAttempts: the loop ends at the first Subscribe that fails.
SubscribeAttemptsUntilError(order, ok) ==
    {order[i] : i \in {j \in DOMAIN order : \A h \in 1 .. (j - 1) : order[h] \in ok}}

\* for topic, handler := range topics { c.Subscribe(topic, 1, handler) ... }:
\* the filters passed to Subscribe when the map is visited in the given order
\* and the broker accepts the filters in ok. An error is logged, nothing else.
SubscribeAttempts(order, ok) == {order[i] : i \in DOMAIN order}

\* The filters subscribed by one run of subscribeTopics.
SubscribeTopics(order, ok) == SubscribeAttempts(order, ok) \cap ok

\* The client record after subscribeTopics ran on a link that is up.
Subscribed(order, ok) ==
    [client EXCEPT !.connected = TRUE, !.link = "up",
                   !.subscribed = @ \cup SubscribeTopics(order, ok),
                   !.attempted = SubscribeAttempts(order, ok),
                   !.log = IF SubscribeAttempts(order, ok) \subseteq ok
                           THEN @ ELSE "subscribe error"]

\* s.ConnectWithClient(c): s.client = c; s.subscribeTopics(c)
ConnectWithClient(ok) ==
    /\ ~client.connected
    /\ \E order \in RangeOrders(Topics) : client' = Subscribed(order, ok)
    /\ UNCHANGED <<inbox, sent, agent>>
    /\ UNCHANGED <<stateHeap, entryHeap, maps, mu, now, pc, arg, ret, applied>>
    /\ UNCHANGED <<listeners, hmu, hpc, hloc>>

\* s.onConnect(c), called by the client when the broker connection is made
\* or made again: a log line, then s.subscribeTopics(c).
OnConnect(ok) ==
    /\ client.connected /\ client.link \in {"pending", "lost"}
    /\ inbox = NoMsg
    /\ \E order \in RangeOrders(Topics) : client' = Subscribed(order, ok)
    /\ UNCHANGED <<inbox, sent, agent>>
    /\ UNCHANGED <<stateHeap, entryHeap, maps, mu, now, pc, arg, ret, applied>>
    /\ UNCHANGED <<listeners, hmu, hpc, hloc>>

\* Mutant of OnConnectionLost: the shadows are dropped with the connection.
OnConnectionLostForgets ==
    /\ client.connected /\ client.link = "up"
    /\ inbox = NoMsg
    /\ client' = [client EXCEPT !.link = "lost", !.log = "connection lost"]
    /\ maps' = [maps EXCEPT ![StoreMap] = EmptyMap]
    /\ UNCHANGED <<inbox, sent, agent>>
    /\ UNCHANGED <<stateHeap, entryHeap, mu, now, pc, arg, ret, applied>>
    /\ UNCHANGED <<listeners, hmu, hpc, hloc>>

\* s.onConnectionLost(c, err): a log line.
OnConnectionLost ==
    /\ client.connected /\ client.link = "up"
    /\ inbox = NoMsg
    /\ client' = [client EXCEPT !.link = "lost", !.log = "connection lost"]
    /\ UNCHANGED <<inbox, sent, agent>>
    /\ UNCHANGED <<stateHeap, entryHeap, maps, mu, now, pc, arg, ret, applied>>
    /\ UNCHANGED <<listeners, hmu, hpc, hloc>>

\* s.Disconnect(): if s.client != nil { s.client.Disconnect(250) }
Disconnect ==
    /\ inbox = NoMsg
    /\ client.link # "closed"
    /\ client' = IF client.connected THEN [client EXCEPT !.link = "closed"] ELSE client
    /\ UNCHANGED <<inbox, sent, agent>>
    /\ UNCHANGED <<stateHeap, entryHeap, maps, mu, now, pc, arg, ret, applied>>
    /\ UNCHANGED <<listeners, hmu, hpc, hloc>>
    /\ UNCHANGED <<inbox, sent, agent>>
    /\ UNCHANGED <<stateHeap, entryHeap, maps, mu, now, pc, arg, ret, applied>>
    /\ UNCHANGED <<listeners, hmu, hpc, hloc>>

\* The client receives a message on a topic one of its subscriptions matches,
\* while no handler is running.
Arrive(p, topic, payload) ==
    /\ client.connected /\ client.link = "up"
    /\ inbox = NoMsg
    /\ pc[p] = "idle" /\ hpc[p] = "idle"
    /\ \E filter \in client.subscribed : TopicMatches(filter, topic)
    /\ inbox' = [topic |-> topic, payload |-> payload]
    /\ UNCHANGED <<client, sent, agent>>
    /\ UNCHANGED <<stateHeap, entryHeap, maps, mu, now, pc, arg, ret, applied>>
    /\ UNCHANGED <<listeners, hmu, hpc, hloc>>

\* A state message arrives while fewer than max states were ever decoded.
ArriveState(p, topic, payload, max) ==
    /\ Len(stateHeap) < max
    /\ Arrive(p, topic, payload)

\* s.Alerter().Register(l), called between messages.
AlerterRegister(p, l) ==
    /\ inbox = NoMsg
    /\ CallRegister(p, l)

\* s.handleState(c, msg): a payload that does not decode is logged and
\* dropped; a decoded state goes to s.shadows.Update, which runs as in Spec.
HandleState(p) ==
    /\ inbox # NoMsg
    /\ WildcardStateTopic \in client.subscribed
    /\ TopicMatches(WildcardStateTopic, inbox.topic)
    /\ IF UnmarshalErr(inbox.payload)
       THEN /\ client' = [client EXCEPT !.log = "bad state message"]
            /\ UNCHANGED <<stateHeap, entryHeap, maps, applied>>
       ELSE LET s == Len(stateHeap) + 1
                state == [UnmarshalState(inbox.payload) EXCEPT
                              !.VehicleID = StateKey(inbox)]
            IN  /\ stateHeap' = Append(stateHeap, state)
                /\ IF IsStale(shadows, state)
                   THEN UNCHANGED <<entryHeap, maps>>
                   ELSE /\ entryHeap' = StoreEntryHeap(s)
                        /\ maps' = [maps EXCEPT ![StoreMap] = StoreShadows(s, state)]
                /\ applied' = Executed(state.VehicleID, s)
                /\ UNCHANGED client
    /\ inbox' = NoMsg
    /\ UNCHANGED <<sent, agent>>
    /\ UNCHANGED <<mu, now, pc, arg, ret>>
    /\ UNCHANGED <<listeners, hmu, hpc, hloc>>

\* Mutant of handleAlert: alerts below the critical severity are dropped.
HandleAlertCriticalOnly(p) ==
    /\ inbox # NoMsg
    /\ WildcardAlertTopic \in client.subscribed
    /\ TopicMatches(WildcardAlertTopic, inbox.topic)
    /\ IF UnmarshalErr(inbox.payload)
          \/ UnmarshalAlert(inbox.payload).Severity < CriticalSeverity
       THEN /\ client' = [client EXCEPT !.log = "bad alert message"]
            /\ UNCHANGED <<hpc, hloc>>
       ELSE /\ hloc' = [hloc EXCEPT ![p] =
                           [NoLocals EXCEPT !.alert = UnmarshalAlert(inbox.payload),
                                            !.atStart = listeners]]
            /\ hpc' = [hpc EXCEPT ![p] = "HandleLog"]
            /\ UNCHANGED client
    /\ inbox' = NoMsg
    /\ UNCHANGED <<sent, agent>>
    /\ UNCHANGED <<stateHeap, entryHeap, maps, mu, now, pc, arg, ret, applied>>
    /\ UNCHANGED <<listeners, hmu>>

\* s.handleAlert(c, msg): a payload that does not decode is logged and
\* dropped; a decoded alert goes to s.alerter.Handle, whose steps follow.
HandleAlert(p) ==
    /\ inbox # NoMsg
    /\ WildcardAlertTopic \in client.subscribed
    /\ TopicMatches(WildcardAlertTopic, inbox.topic)
    /\ IF UnmarshalErr(inbox.payload)
       THEN /\ client' = [client EXCEPT !.log = "bad alert message"]
            /\ UNCHANGED <<hpc, hloc>>
       ELSE /\ hloc' = [hloc EXCEPT ![p] =
                           [NoLocals EXCEPT !.alert = UnmarshalAlert(inbox.payload),
                                            !.atStart = listeners]]
            /\ hpc' = [hpc EXCEPT ![p] = "HandleLog"]
            /\ UNCHANGED client
    /\ inbox' = NoMsg
    /\ UNCHANGED <<sent, agent>>
    /\ UNCHANGED <<stateHeap, entryHeap, maps, mu, now, pc, arg, ret, applied>>
    /\ UNCHANGED <<listeners, hmu>>

\* The topics vehicles publish on.
StateTopics == {StateTopic(k) : k \in Keys}
AlertTopics == {AlertTopic(k) : k \in Keys}

\* SpecServer: listeners are registered on s.Alerter(), the server is given
\* its client, and state and alert messages, well-formed or not, arrive.
NextServer ==
    \/ \E ok \in SUBSET Topics : ConnectWithClient(ok)
    \/ \E p \in Callers, l \in Observers : AlerterRegister(p, l)
    \/ \E p \in Callers : RegisterLock(p)
    \/ \E p \in Callers : RegisterAppend(p)
    \/ \E p \in Callers : RegisterUnlock(p)
    \/ \E p \in Callers, t \in StateTopics, m \in StatePayloads({0}) \cup Malformed :
          ArriveState(p, t, m, MaxUpdates)
    \/ \E p \in Callers, t \in AlertTopics, m \in AlertPayloads \cup Malformed :
          Arrive(p, t, m)
    \/ \E p \in Callers : HandleState(p)
    \/ \E p \in Callers : HandleAlert(p)
    \/ \E p \in Callers : HandleLog(p)
    \/ \E p \in Callers : HandleRLock(p)
    \/ \E p \in Callers : HandleCopy(p)
    \/ \E p \in Callers : HandleRUnlock(p)
    \/ \E p \in Callers : HandleLoop(p)
    \/ \E p \in Callers : ListenerReturn(p)
    \/ \E p \in Callers : HandleReturn(p)

SpecServer == Init /\ [][NextServer]_vars

(* --------------- SpecControl: the Server sends commands ---------------- *)
\* The ControlCommands passed to SendControl: a vehicle and a target speed,
\* which is a number or NaN (json.Marshal rejects a NaN float).
Commands == [VehicleID : Keys, TargetSpeed : {"0", "NaN"}]

\* json.Marshal(cmd) fails on a float that JSON cannot represent.
MarshalErr(cmd) == cmd.TargetSpeed = "NaN"

\* json.Marshal(cmd), after cmd.Timestamp = time.Now().UnixMilli().
MarshalCommand(cmd, t) ==
    [NoPayload EXCEPT !.kind = "object", !.vehicle_id = cmd.VehicleID, !.timestamp = t]

\* Mutant of PublishTopic: commands go out on the vehicle's state topic.
PublishTopicState(cmd) == StateTopic(cmd.VehicleID)

\* topic := protocol.ControlTopic(cmd.VehicleID)
PublishTopic(cmd) == ControlTopic(cmd.VehicleID)

\* s.client.Publish(topic, 1, false, data)
Publish(topic, qos, retained, data) ==
    Append(client.published,
           [topic |-> topic, qos |-> qos, retained |-> retained, payload |-> data])

\* err := s.SendControl(cmd). tokenErr is what token.Error() reports after
\* token.Wait(). Before Connect s.client is nil and the call of Publish panics.
SendControl(cmd, tokenErr) ==
    /\ inbox = NoMsg
    /\ Len(client.published) < MaxPublished
    /\ IF MarshalErr(cmd)
       THEN sent' = "marshal error" /\ UNCHANGED client
       ELSE IF ~client.connected
            THEN sent' = "panic" /\ UNCHANGED client
            ELSE /\ client' = [client EXCEPT !.published =
                                  Publish(PublishTopic(cmd), 1, FALSE,
                                          MarshalCommand(cmd, now))]
                 /\ sent' = tokenErr
    /\ UNCHANGED <<inbox, agent>>
    /\ UNCHANGED <<stateHeap, entryHeap, maps, mu, now, pc, arg, ret, applied>>
    /\ UNCHANGED <<listeners, hmu, hpc, hloc>>

\* SpecControl: a server with a listener registered and state messages coming
\* in sends commands; a panic of SendControl ends the program.
NextControl ==
    /\ sent # "panic"
    /\ \/ \E ok \in {Topics} : ConnectWithClient(ok)
       \/ \E p \in Callers, l \in {"o1"} : AlerterRegister(p, l)
       \/ \E p \in Callers : RegisterLock(p)
       \/ \E p \in Callers : RegisterAppend(p)
       \/ \E p \in Callers : RegisterUnlock(p)
       \/ \E p \in Callers, t \in StateTopics, m \in StatePayloads({0}) :
             ArriveState(p, t, m, MaxUpdates)
       \/ \E p \in Callers : HandleState(p)
       \/ \E cmd \in Commands, tokenErr \in {"nil", "publish error"} :
             SendControl(cmd, tokenErr)

SpecControl == Init /\ [][NextControl]_vars

(* ------------------ SpecAgent: the vehicle Agent's Run ------------------ *)
\* agent := New(Config{VehicleID: id}, stateProvider)
AgentNew(id) ==
    /\ agent.pc = "none"
    /\ agent' = [agent EXCEPT !.pc = "ready", !.VehicleID = id]
    /\ UNCHANGED <<client, inbox, sent>>
    /\ UNCHANGED <<stateHeap, entryHeap, maps, mu, now, pc, arg, ret, applied>>
    /\ UNCHANGED <<listeners, hmu, hpc, hloc>>

\* agent.ConnectWithClient(c)
AgentConnectWithClient ==
    /\ agent.pc = "ready" /\ ~agent.connected
    /\ agent' = [agent EXCEPT !.connected = TRUE]
    /\ UNCHANGED <<client, inbox, sent>>
    /\ UNCHANGED <<stateHeap, entryHeap, maps, mu, now, pc, arg, ret, applied>>
    /\ UNCHANGED <<listeners, hmu, hpc, hloc>>

\* go agent.Run(ctx): the ticker is made and Run waits in its select.
Run ==
    /\ agent.pc = "ready"
    /\ agent' = [agent EXCEPT !.pc = "select", !.tickC = 0]
    /\ UNCHANGED <<client, inbox, sent>>
    /\ UNCHANGED <<stateHeap, entryHeap, maps, mu, now, pc, arg, ret, applied>>
    /\ UNCHANGED <<listeners, hmu, hpc, hloc>>

\* The ticker fires: the tick waits in ticker.C, or is dropped when the one
\* before it is still waiting there.
TickerFires ==
    /\ agent.pc \in {"select", "publishState"}
    /\ agent.ticks < MaxTicks
    /\ agent' = [agent EXCEPT !.tickC = 1, !.ticks = @ + 1]
    /\ UNCHANGED <<client, inbox, sent>>
    /\ UNCHANGED <<stateHeap, entryHeap, maps, mu, now, pc, arg, ret, applied>>
    /\ UNCHANGED <<listeners, hmu, hpc, hloc>>

\* cancel(), or the deadline of ctx passes.
Cancel ==
    /\ agent.pc # "none" /\ ~agent.cancelled
    /\ agent' = [agent EXCEPT !.cancelled = TRUE]
    /\ UNCHANGED <<client, inbox, sent>>
    /\ UNCHANGED <<stateHeap, entryHeap, maps, mu, now, pc, arg, ret, applied>>
    /\ UNCHANGED <<listeners, hmu, hpc, hloc>>

\* case <-ctx.Done(): return ctx.Err()
RunSelectDone ==
    /\ agent.pc = "select" /\ agent.cancelled
    /\ agent' = [agent EXCEPT !.pc = "returned", !.err = "ctx.Err()"]
    /\ UNCHANGED <<client, inbox, sent>>
    /\ UNCHANGED <<stateHeap, entryHeap, maps, mu, now, pc, arg, ret, applied>>
    /\ UNCHANGED <<listeners, hmu, hpc, hloc>>

\* case <-ticker.C: the call of a.publishState() follows.
RunSelectTick ==
    /\ agent.pc = "select" /\ agent.tickC = 1
    /\ agent' = [agent EXCEPT !.pc = "publishState", !.tickC = 0, !.received = @ + 1]
    /\ UNCHANGED <<client, inbox, sent>>
    /\ UNCHANGED <<stateHeap, entryHeap, maps, mu, now, pc, arg, ret, applied>>
    /\ UNCHANGED <<listeners, hmu, hpc, hloc>>

\* json.Marshal(state), after state.Timestamp = time.Now().UnixMilli().
MarshalState(id, t) ==
    [NoPayload EXCEPT !.kind = "object", !.vehicle_id = id, !.timestamp = t]

\* a.client.Publish(topic, 0, false, data) with
\* topic := protocol.StateTopic(a.cfg.VehicleID)
AgentPublish(data) ==
    Append(agent.published,
           [topic |-> StateTopic(agent.VehicleID), qos |-> 0, retained |-> FALSE,
            payload |-> data])

\* Mutant of PublishState: an error of publishState ends Run, which returns it.
PublishStateFatal(id, outcome) ==
    /\ agent.pc = "publishState"
    /\ IF outcome = "marshal error"
       THEN agent' = [agent EXCEPT !.pc = "returned", !.err = outcome,
                                   !.attempts = Append(@, outcome)]
       ELSE IF ~agent.connected
            THEN agent' = [agent EXCEPT !.pc = "panic"]
            ELSE agent' = [agent EXCEPT
                              !.pc = IF outcome = "nil" THEN "select" ELSE "returned",
                              !.err = IF outcome = "nil" THEN @ ELSE outcome,
                              !.published = AgentPublish(MarshalState(id, now)),
                              !.attempts = Append(@, outcome)]
    /\ UNCHANGED <<client, inbox, sent>>
    /\ UNCHANGED <<stateHeap, entryHeap, maps, mu, now, pc, arg, ret, applied>>
    /\ UNCHANGED <<listeners, hmu, hpc, hloc>>

\* if err := a.publishState(); err != nil { log.Printf(...) }, then the loop
\* goes round. id is the VehicleID of the state a.stateFn() returned; outcome
\* is "marshal error" when the state cannot be encoded (nothing is published)
\* and otherwise what token.Error() reports. Before ConnectWithClient a.client
\* is nil and the call of Publish panics.
PublishState(id, outcome) ==
    /\ agent.pc = "publishState"
    /\ IF outcome = "marshal error"
       THEN agent' = [agent EXCEPT !.pc = "select", !.attempts = Append(@, outcome)]
       ELSE IF ~agent.connected
            THEN agent' = [agent EXCEPT !.pc = "panic"]
            ELSE agent' = [agent EXCEPT
                              !.pc = "select",
                              !.published = AgentPublish(MarshalState(id, now)),
                              !.attempts = Append(@, outcome)]
    /\ UNCHANGED <<client, inbox, sent>>
    /\ UNCHANGED <<stateHeap, entryHeap, maps, mu, now, pc, arg, ret, applied>>
    /\ UNCHANGED <<listeners, hmu, hpc, hloc>>

\* What publishState may return.
PublishOutcomes == {"nil", "publish error", "marshal error"}

NextAgent ==
    \/ \E id \in Keys : AgentNew(id)
    \/ AgentConnectWithClient
    \/ Run
    \/ TickerFires
    \/ Cancel
    \/ RunSelectDone
    \/ RunSelectTick
    \/ \E id \in Keys, outcome \in PublishOutcomes : PublishState(id, outcome)

SpecAgent == Init /\ [][NextAgent]_vars

\* SpecAgentFair: publishState returns (token.Wait() does not block forever),
\* and a select whose ctx.Done() case is ready again and again takes it in the
\* end: Go picks among the ready cases of a select at random.
SpecAgentFair ==
    /\ Init /\ [][NextAgent]_vars
    /\ WF_agent(\E id \in Keys, outcome \in PublishOutcomes : PublishState(id, outcome))
    /\ SF_agent(RunSelectDone)

(* ------- SpecRedelivery: state messages that arrive more than once ------ *)
\* The transport is at-least-once (QoS 1): a state message may arrive again,
\* at once or after later messages. Every message comes on the state topic of
\* the vehicle it names and carries a speed besides its timestamp; the clock
\* advances between deliveries.
Speeds == {0, 1}

NextRedelivery ==
    \/ Tick
    \/ \E ok \in {Topics} : ConnectWithClient(ok)
    \/ \E p \in Callers, m \in StatePayloads(Speeds) :
          ArriveState(p, StateTopic(m.vehicle_id), m, MaxDeliveries)
    \/ \E p \in Callers : HandleState(p)

SpecRedelivery == Init /\ [][NextRedelivery]_vars

(* ------ SpecConnection: the link to the broker comes and goes ---------- *)
\* A server with listeners and stored vehicles whose connection is lost, made
\* again and closed, while the owner of the Manager may remove vehicles.
NextConnection ==
    \/ \E ok \in SUBSET Topics : ConnectWithClient(ok)
    \/ \E ok \in SUBSET Topics : OnConnect(ok)
    \/ OnConnectionLost
    \/ Disconnect
    \/ \E p \in Callers, l \in {"o1"} : AlerterRegister(p, l)
    \/ \E p \in Callers : RegisterLock(p)
    \/ \E p \in Callers : RegisterAppend(p)
    \/ \E p \in Callers : RegisterUnlock(p)
    \/ \E p \in Callers, t \in StateTopics, m \in StatePayloads({0}) :
          ArriveState(p, t, m, MaxUpdates)
    \/ \E p \in Callers : HandleState(p)
    \/ \E p \in Callers, k \in Keys : Remove(p, k)

SpecConnection == Init /\ [][NextConnection]_vars

(* ------------- SpecTLS: Connect with certificates on disk -------------- *)
\* The configurations: each path unset, or naming a file in some condition.
FileStates == {"valid", "missing", "garbage"}
Files ==
    [CertFile : {""} \cup FileStates,
     KeyFile : {""} \cup FileStates \cup {"mismatch"},
     CAFile : {""} \cup FileStates]

\* Mutant of TLSConfig: a CA file without a certificate in it is let through,
\* the pool is left empty.
TLSConfigEmptyPool(files) ==
    IF files.CertFile # "valid" \/ files.KeyFile # "valid"
    THEN [cfg |-> NoConfig, err |-> "tls: load key pair"]
    ELSE IF files.CAFile \in {"missing", ""}
    THEN [cfg |-> NoConfig, err |-> "read ca file"]
    ELSE [cfg |-> [MinVersion |-> "TLS13", Certificates |-> 1,
                   RootCAs |-> IF files.CAFile = "valid" THEN "ca" ELSE "empty",
                   ClientCAs |-> IF files.CAFile = "valid" THEN "ca" ELSE "empty",
                   ClientAuth |-> "RequireAndVerifyClientCert"],
          err |-> ""]

\* security.TLSConfig(certFile, keyFile, caFile): tls.LoadX509KeyPair fails
\* unless both files are there, parse and belong together; os.ReadFile fails
\* on a missing CA file (and on the empty path); AppendCertsFromPEM reports a
\* file with no certificate in it.
TLSConfig(files) ==
    IF files.CertFile # "valid" \/ files.KeyFile # "valid"
    THEN [cfg |-> NoConfig, err |-> "tls: load key pair"]
    ELSE IF files.CAFile \in {"missing", ""}
    THEN [cfg |-> NoConfig, err |-> "read ca file"]
    ELSE IF files.CAFile # "valid"
    THEN [cfg |-> NoConfig, err |-> "security: failed to parse CA certificate"]
    ELSE [cfg |-> [MinVersion |-> "TLS13", Certificates |-> 1,
                   RootCAs |-> "ca", ClientCAs |-> "ca",
                   ClientAuth |-> "RequireAndVerifyClientCert"],
          err |-> ""]

\* security.ServerTLSConfig
ServerTLSConfig(files) ==
    IF TLSConfig(files).err # ""
    THEN [cfg |-> NoConfig, err |-> TLSConfig(files).err]
    ELSE [cfg |-> [TLSConfig(files).cfg EXCEPT !.ClientAuth = "RequireAndVerifyClientCert"],
          err |-> ""]

\* security.ClientTLSConfig
ClientTLSConfig(files) ==
    IF TLSConfig(files).err # ""
    THEN [cfg |-> NoConfig, err |-> TLSConfig(files).err]
    ELSE [cfg |-> [TLSConfig(files).cfg EXCEPT !.ClientAuth = "NoClientCert"],
          err |-> ""]

\* if cfg.CertFile != "" && cfg.KeyFile != "" && cfg.CAFile != ""
UsesTLS(files) == files.CertFile # "" /\ files.KeyFile # "" /\ files.CAFile # ""

\* srv := controlcenter.New(cfg), for a Config that names certificate files.
ServerNew(files) ==
    /\ client = NoClient
    /\ files # NoFiles
    /\ client' = [client EXCEPT !.cfg = files]
    /\ UNCHANGED <<inbox, sent, agent>>
    /\ UNCHANGED <<stateHeap, entryHeap, maps, mu, now, pc, arg, ret, applied>>
    /\ UNCHANGED <<listeners, hmu, hpc, hloc>>

\* err := s.Connect(). tokenErr is what the token of s.client.Connect()
\* reports: "" for a connection made, after which the client will call
\* s.onConnect.
Connect(tokenErr) ==
    /\ ~client.connected
    /\ IF UsesTLS(client.cfg) /\ ServerTLSConfig(client.cfg).err # ""
       THEN client' = [client EXCEPT
                          !.err = "control-center tls config: "
                                     \o ServerTLSConfig(client.cfg).err]
       ELSE client' = [client EXCEPT
                          !.connected = TRUE,
                          !.tls = IF UsesTLS(client.cfg)
                                  THEN ServerTLSConfig(client.cfg).cfg ELSE NoConfig,
                          !.link = IF tokenErr = "" THEN "pending" ELSE "down",
                          !.err = IF tokenErr = "" THEN "nil"
                                  ELSE "control-center connect: " \o tokenErr]
    /\ UNCHANGED <<inbox, sent, agent>>
    /\ UNCHANGED <<stateHeap, entryHeap, maps, mu, now, pc, arg, ret, applied>>
    /\ UNCHANGED <<listeners, hmu, hpc, hloc>>

\* agent := vehicle.New(cfg, stateProvider), for a Config that names
\* certificate files.
AgentNewTLS(id, files) ==
    /\ agent.pc = "none"
    /\ files # NoFiles
    /\ agent' = [agent EXCEPT !.pc = "ready", !.VehicleID = id, !.cfg = files]
    /\ UNCHANGED <<client, inbox, sent>>
    /\ UNCHANGED <<stateHeap, entryHeap, maps, mu, now, pc, arg, ret, applied>>
    /\ UNCHANGED <<listeners, hmu, hpc, hloc>>

\* err := agent.Connect()
AgentConnect(tokenErr) ==
    /\ agent.pc = "ready" /\ ~agent.connected
    /\ IF UsesTLS(agent.cfg) /\ ClientTLSConfig(agent.cfg).err # ""
       THEN agent' = [agent EXCEPT
                         !.connectErr = "vehicle agent tls config: "
                                           \o ClientTLSConfig(agent.cfg).err]
       ELSE agent' = [agent EXCEPT
                         !.connected = TRUE,
                         !.tls = IF UsesTLS(agent.cfg)
                                 THEN ClientTLSConfig(agent.cfg).cfg ELSE NoConfig,
                         !.link = IF tokenErr = "" THEN "pending" ELSE "down",
                         !.connectErr = IF tokenErr = "" THEN "nil"
                                        ELSE "vehicle agent connect: " \o tokenErr]
    /\ UNCHANGED <<client, inbox, sent>>
    /\ UNCHANGED <<stateHeap, entryHeap, maps, mu, now, pc, arg, ret, applied>>
    /\ UNCHANGED <<listeners, hmu, hpc, hloc>>

\* What the token of Connect() may report.
ConnectOutcomes == {"", "network error"}

NextTLS ==
    \/ \E files \in Files : ServerNew(files)
    \/ \E tokenErr \in ConnectOutcomes : Connect(tokenErr)
    \/ \E ok \in {Topics} : OnConnect(ok)
    \/ \E id \in {"car-001"} : AgentNew(id)
    \/ \E id \in {"car-001"}, files \in Files : AgentNewTLS(id, files)
    \/ \E tokenErr \in ConnectOutcomes : AgentConnect(tokenErr)

SpecTLS == Init /\ [][NextTLS]_vars

(* ======================= properties of the code ======================= *)
\* The producer timestamp of the state at address s.
TsOf(s) == stateHeap[s].Timestamp

\* The largest timestamp among the calls of a history h.
MaxTs(h) == CHOOSE x \in {TsOf(h[i].st) : i \in DOMAIN h} :
                \A i \in DOMAIN h : TsOf(h[i].st) <= x

\* The most recent call of h that carried the largest timestamp.
LastMax(h) ==
    h[CHOOSE i \in DOMAIN h :
          /\ TsOf(h[i].st) = MaxTs(h)
          /\ \A j \in DOMAIN h : j > i => TsOf(h[j].st) < MaxTs(h)]

\* The timestamp stored for a key of the store.
StoredTs(k) == TsOf(entryHeap[shadows[k]].State)

\* The step is a call Update(MakeState(k, ts)) by p: k and ts are read off the
\* state the call allocated.
UpdateStep(p) ==
    /\ Len(stateHeap') = Len(stateHeap) + 1
    /\ Update(p, stateHeap'[Len(stateHeap')].VehicleID, stateHeap'[Len(stateHeap')].Timestamp)
IncomingKey == stateHeap'[Len(stateHeap')].VehicleID
IncomingTs == stateHeap'[Len(stateHeap')].Timestamp

\* The step is a call of Get, All, ActiveVehicles by p that returned something
\* new to it, or a call Remove(k) that changed something.
GetStep(p) ==
    /\ ret'[p] # ret[p] /\ ret'[p].op = "Get"
    /\ Get(p, ret'[p].key)
AllStep(p) ==
    /\ (ret'[p] # ret[p] \/ maps'[p] # maps[p]) /\ ret'[p].op = "All"
    /\ All(p)
ActiveVehiclesStep(p) ==
    /\ ret'[p] # ret[p] /\ ret'[p].op = "ActiveVehicles"
    /\ ActiveVehicles(p, ret'[p].maxAge)
RemoveStep(p, k) ==
    /\ stateHeap' = stateHeap
    /\ (maps'[StoreMap] # maps[StoreMap] \/ applied' # applied)
    /\ Remove(p, k)

\* C1: after any sequence of Update calls on one key with no Remove in between,
\* Get(key) reports found, with the state passed by the most recent of the
\* calls that carried the largest timestamp of the sequence.
C1_GetReturnsLatestMax ==
    \A k \in Keys :
        applied[k] # <<>> =>
            /\ GetResult(k).ok
            /\ entryHeap[GetResult(k).e].State = LastMax(applied[k]).st
            /\ TsOf(entryHeap[GetResult(k).e].State) = MaxTs(applied[k])

\* C1 happens: two calls carried the largest timestamp, a later call an older
\* one or none, and a Get of the key returned the second of the two.
C1_Witness ==
    \E p \in Callers, k \in Keys :
        /\ Len(applied[k]) >= 2
        /\ TsOf(applied[k][1].st) = TsOf(applied[k][2].st)
        /\ TsOf(applied[k][1].st) = MaxTs(applied[k])
        /\ ret[p].op = "Get" /\ ret[p].key = k /\ ret[p].ok
        /\ entryHeap[ret[p].e].State = applied[k][2].st

\* C2: an Update with a timestamp strictly below the stored one for its key
\* completes and changes neither the store's map nor any entry or state it
\* refers to (stored state and UpdatedAt of every key as before).
C2_StaleUpdateIsNoOp ==
    [][\A p \in Callers :
          (/\ UpdateStep(p)
           /\ IncomingKey \in DOMAIN shadows
           /\ IncomingTs < StoredTs(IncomingKey)) =>
              /\ maps'[StoreMap] = maps[StoreMap]
              /\ \A j \in DOMAIN shadows :
                    /\ entryHeap'[shadows[j]] = entryHeap[shadows[j]]
                    /\ stateHeap'[entryHeap[shadows[j]].State]
                          = stateHeap[entryHeap[shadows[j]].State]]_vars

\* C2 happens: the last Update executed on a key was older than the stored
\* state, which is still the one of the earlier call.
C2_Witness ==
    \E k \in Keys :
        /\ Len(applied[k]) >= 2
        /\ k \in DOMAIN shadows
        /\ TsOf(applied[k][Len(applied[k])].st) < StoredTs(k)
        /\ entryHeap[shadows[k]].State = applied[k][1].st

\* C3: whatever the order in which overlapping Update calls for one key take
\* the lock, the store holds a state with the largest timestamp among the
\* calls executed on the key.
C3_ConcurrentUpdatesConverge ==
    \A k \in Keys :
        applied[k] # <<>> =>
            /\ k \in DOMAIN shadows
            /\ StoredTs(k) = MaxTs(applied[k])

\* C3 happens: two Update calls for one key with different timestamps
\* overlapped, the one issued second took the lock first, and both returned.
C3_Witness ==
    \E k \in Keys :
        /\ Len(applied[k]) = 2
        /\ applied[k][1].st > applied[k][2].st
        /\ TsOf(applied[k][1].st) > TsOf(applied[k][2].st)
        /\ \A p \in Procs : pc[p] = "idle"

\* C4: an Update whose timestamp is equal to or above the stored one, or whose
\* key has no entry, makes the incoming state the stored state and sets
\* UpdatedAt to the time of the call.
C4_FreshUpdateIsStored ==
    [][\A p \in Callers :
          (/\ UpdateStep(p)
           /\ IncomingKey \in DOMAIN shadows => IncomingTs >= StoredTs(IncomingKey)) =>
              /\ IncomingKey \in DOMAIN maps'[StoreMap]
              /\ entryHeap'[maps'[StoreMap][IncomingKey]].State = Len(stateHeap')
              /\ entryHeap'[maps'[StoreMap][IncomingKey]].UpdatedAt = now]_vars

\* C4 happens: an Update with the stored timestamp replaced the state of an
\* earlier call, at a later time.
C4_Witness ==
    \E k \in Keys :
        /\ Len(applied[k]) = 2
        /\ TsOf(applied[k][1].st) = TsOf(applied[k][2].st)
        /\ k \in DOMAIN shadows
        /\ entryHeap[shadows[k]].State = applied[k][2].st
        /\ entryHeap[shadows[k]].UpdatedAt = applied[k][2].at
        /\ applied[k][2].at > applied[k][1].at

\* C5: the map All() returns has exactly the keys updated and not removed
\* afterwards, each with the entry written by the last accepted Update of
\* the key.
C5_AllReturnsLiveKeys ==
    [][\A p \in Callers :
          AllStep(p) =>
              LET m == maps'[ret'[p].all]
              IN  /\ DOMAIN m = {k \in Keys : applied[k] # <<>>}
                  /\ \A k \in DOMAIN m :
                        entryHeap[m[k]] = [State |-> LastMax(applied[k]).st,
                                           UpdatedAt |-> LastMax(applied[k]).at]]_vars

\* C5 happens: All() returned one key while the other key had been updated and
\* then removed.
C5_Witness ==
    \E p \in Callers, k \in Keys :
        /\ ret[p].op = "All"
        /\ DOMAIN maps[ret[p].all] = Keys \ {k}
        /\ DOMAIN shadows = Keys \ {k}
        /\ \E s \in DOMAIN stateHeap : stateHeap[s].VehicleID = k

\* What a caller sees through a map of entries: per key, the state and the
\* UpdatedAt of its entry.
ViewOf(sh, eh, m) ==
    [k \in DOMAIN m |-> [state |-> sh[eh[m[k]].State], at |-> eh[m[k]].UpdatedAt]]

\* A step that runs an Update or a Remove.
WriteStep ==
    \/ \E q \in Callers : UpdateStep(q)
    \/ \E q \in Callers, k \in Keys : RemoveStep(q, k)

Range(s) == {s[i] : i \in DOMAIN s}

\* C7: ActiveVehicles(d) returns exactly the keys whose last accepted Update
\* was executed strictly after now - d, whatever timestamps the states carry.
C7_ActiveVehiclesByAcceptTime ==
    [][\A p \in Callers :
          ActiveVehiclesStep(p) =>
              Range(ret'[p].ids) =
                  {k \in Keys : /\ applied[k] # <<>>
                                /\ LastMax(applied[k]).at > now - ret'[p].maxAge}]_vars

\* C7 happens: ActiveVehicles(d) with d > 0 returned one key and left out a
\* key accepted exactly d ago although its state carries the largest timestamp.
C7_Witness ==
    \E p \in Callers, k \in Keys :
        /\ ret[p].op = "ActiveVehicles" /\ ret[p].maxAge > 0
        /\ k \in DOMAIN shadows
        /\ entryHeap[shadows[k]].UpdatedAt = now - ret[p].maxAge
        /\ StoredTs(k) = MaxTimestamp
        /\ k \notin Range(ret[p].ids)
        /\ Range(ret[p].ids) # {}

\* C8: Remove(key) completes and leaves the key absent, so that Get(key)
\* reports not-found; it leaves the entry of every other key as it was, and on
\* an absent key it leaves the whole store as it was.
C8_RemoveDeletesOnlyItsKey ==
    [][\A p \in Callers, k \in Keys :
          RemoveStep(p, k) =>
              /\ ~Lookup(maps'[StoreMap], k).ok
              /\ \A j \in Keys \ {k} :
                    Lookup(maps'[StoreMap], j) = Lookup(maps[StoreMap], j)
              /\ k \notin DOMAIN shadows => maps'[StoreMap] = maps[StoreMap]
              /\ entryHeap' = entryHeap /\ stateHeap' = stateHeap]_vars

\* C8 happens: a key that had an entry was removed, a Get of it returned
\* not-found, and the other key still has its entry.
C8_Witness ==
    \E p \in Callers, k \in Keys :
        /\ \E e \in DOMAIN entryHeap : stateHeap[entryHeap[e].State].VehicleID = k
        /\ k \notin DOMAIN shadows
        /\ ret[p].op = "Get" /\ ret[p].key = k /\ ~ret[p].ok
        /\ DOMAIN shadows = Keys \ {k}

\* C9: Get on a key with no Update executed since the start or since its last
\* Remove returns (nil, false), and no Get changes the store.
C9_GetMissingIsNotFound ==
    [][\A p \in Callers, k \in Keys :
          (GetStep(p) /\ ret'[p].key = k) =>
              /\ applied[k] = <<>> => (~ret'[p].ok /\ ret'[p].e = Nil)
              /\ maps'[StoreMap] = maps[StoreMap]
              /\ entryHeap' = entryHeap /\ stateHeap' = stateHeap]_vars

\* C9 happens: a Get of a key that was never updated returned not-found while
\* the store holds another key.
C9_Witness ==
    \E p \in Callers :
        /\ ret[p].op = "Get" /\ ~ret[p].ok /\ ret[p].e = Nil
        /\ \A s \in DOMAIN stateHeap : stateHeap[s].VehicleID # ret[p].key
        /\ shadows # EmptyMap

IsPrefix(a, b) == Len(a) <= Len(b) /\ SubSeq(b, 1, Len(a)) = a

\* C10: when Handle is about to return, the listeners it invoked begin with
\* the listeners registered when the call started, in registration order, none
\* invoked twice for one registration, and every invoked listener has
\* returned to the calling goroutine.
C10_HandleInvokesEachOnceInOrder ==
    \A p \in Procs :
        hpc[p] = "HandleDone" =>
            /\ IsPrefix(hloc[p].atStart, hloc[p].invoked)
            /\ IsPrefix(hloc[p].invoked, listeners)
            /\ hloc[p].i = Len(hloc[p].invoked) + 1

\* C10 happens: Handle is about to return after invoking three listeners that
\* were registered before it started.
C10_Witness ==
    \E p \in Procs :
        /\ hpc[p] = "HandleDone"
        /\ Len(hloc[p].atStart) = 3
        /\ hloc[p].invoked = hloc[p].atStart
        /\ hloc[p].atStart[1] # hloc[p].atStart[2]

\* The places of Handle after the snapshot of h.listeners was taken.
AfterSnapshot == {"HandleRUnlock", "HandleLoop", "HandleInvoke", "HandleDone"}

\* C11: a Register that appends after a Handle took its snapshot does not
\* affect that Handle: the snapshot is the list as it was when copied, no later
\* step changes it, the Handle invokes exactly the listeners of its snapshot in
\* their order, and a Handle invokes every listener whose Register had
\* returned when the Handle started.
C11_RegisterAfterSnapshotIsNotSeen ==
    [][\A p \in Procs :
          /\ (hpc[p] = "HandleCopy" /\ hpc'[p] = "HandleRUnlock") =>
                 hloc'[p].ls = listeners
          /\ (hpc[p] \in AfterSnapshot /\ hpc'[p] \in AfterSnapshot) =>
                 /\ hloc'[p].ls = hloc[p].ls
                 /\ IsPrefix(hloc'[p].invoked, hloc[p].ls)
          /\ (hpc[p] \in AfterSnapshot /\ listeners' # listeners) =>
                 hloc'[p] = hloc[p]
          /\ hpc'[p] = "HandleDone" =>
                 /\ hloc'[p].invoked = hloc'[p].ls
                 /\ IsPrefix(hloc'[p].atStart, hloc'[p].invoked)]_vars

\* C11 happens: a Handle is about to return having invoked its snapshot, which
\* lacks a listener registered since, while a Handle started after that
\* Register returned has invoked the new listener too.
C11_Witness ==
    \E p, q \in Procs :
        /\ hpc[p] = "HandleDone" /\ hpc[q] = "HandleDone"
        /\ hloc[p].ls # <<>>
        /\ hloc[p].invoked = hloc[p].ls
        /\ Len(hloc[p].ls) < Len(hloc[q].atStart)
        /\ hloc[q].atStart = listeners
        /\ hloc[q].invoked = listeners

\* The positions of a listener in a list of listeners.
Positions(ls, l) == {j \in DOMAIN ls : ls[j] = l}

\* C12: Register appends its listener whether or not it is registered already,
\* and a Handle that is about to return has invoked each listener once per
\* registration made before the call started, at the positions of these
\* registrations (and nothing else when no Register ran during the call).
C12_NoDeduplication ==
    [][\A p \in Procs :
          /\ (hpc[p] = "RegisterAppend" /\ hpc'[p] = "RegisterUnlock") =>
                 listeners' = Append(listeners, hloc[p].l)
          /\ hpc'[p] = "HandleDone" =>
                 \A l \in Observers :
                     /\ Positions(hloc'[p].invoked, l) \cap DOMAIN hloc'[p].atStart
                            = Positions(hloc'[p].atStart, l)
                     /\ hloc'[p].atStart = listeners' =>
                            Positions(hloc'[p].invoked, l) = Positions(listeners', l)]_vars

\* C12 happens: a listener registered twice, with another one in between, was
\* invoked first and third by a Handle that is about to return.
C12_Witness ==
    \E p \in Procs, l \in Observers :
        /\ hpc[p] = "HandleDone"
        /\ Positions(listeners, l) = {1, 3}
        /\ Len(listeners) = 3
        /\ hloc[p].atStart = listeners
        /\ Positions(hloc[p].invoked, l) = {1, 3}
        /\ Len(hloc[p].invoked) = 3

\* The places of Handle after the alert was logged.
AfterLog == {"HandleRLock", "HandleCopy"} \cup AfterSnapshot \cup {"HandleInvoke", "HandlePanic"}

\* C13: Handle logs every alert at exactly one of two tiers, chosen by the
\* severity alone: CRITICAL for a severity of 3 or more, WARN for any severity
\* below 3, zero and negative ones included; whatever the tier, the alert is
\* passed on as it came in and the listeners invoked are the registered ones.
C13_TwoTiersBySeverity ==
    [][\A p \in Callers :
          /\ hpc'[p] \in AfterLog =>
                 /\ hloc'[p].tier \in {"CRITICAL", "WARN"}
                 /\ hloc'[p].tier = "CRITICAL" <=> hloc'[p].alert.Severity >= 3
                 /\ hloc'[p].tier = "WARN" <=> hloc'[p].alert.Severity < 3
          /\ (hpc[p] \in AfterLog \cup {"HandleLog"} /\ hpc'[p] # "idle") =>
                 hloc'[p].alert = hloc[p].alert
          /\ hpc'[p] = "HandleDone" => hloc'[p].invoked = listeners']_vars

\* C13 happens: an alert of negative severity was logged as WARN and one of a
\* severity above 3 would be CRITICAL; the Handle of the former is about to
\* return after invoking two listeners.
C13_Witness ==
    \E p \in Callers :
        /\ hpc[p] = "HandleDone"
        /\ hloc[p].alert.Severity < 0
        /\ hloc[p].tier = "WARN"
        /\ Len(hloc[p].invoked) = 2
        /\ hloc[p].invoked = listeners

\* C20: a listener that misbehaves is not isolated. While a listener has not
\* returned, Handle invokes no other listener and does not return; when a
\* listener panics Handle is left without returning, the listeners after it in
\* the copy have not been invoked, and a Handle that is about to return has
\* seen every listener it invoked return.
C20_MisbehavingListenerIsNotIsolated ==
    [][\A p \in Callers :
          /\ hpc[p] = "HandleInvoke" =>
                 /\ hpc'[p] \in {"HandleInvoke", "HandleLoop", "HandlePanic"}
                 /\ hloc'[p].invoked = hloc[p].invoked
          /\ hpc'[p] = "HandlePanic" =>
                 /\ hloc'[p].invoked = SubSeq(hloc'[p].ls, 1, hloc'[p].i)
                 /\ hloc'[p].i <= Len(hloc'[p].ls)
          /\ hpc[p] = "HandlePanic" => (hpc'[p] = "HandlePanic" /\ hloc'[p] = hloc[p])
          /\ hpc'[p] = "HandleDone" =>
                 /\ hpc[p] \in {"HandleLoop", "HandleDone"}
                 /\ hloc'[p].i = Len(hloc'[p].invoked) + 1]_vars

\* C20 happens: the first of three listeners panicked; Handle was left with
\* the second and the third not invoked.
C20_Witness ==
    \E p \in Callers :
        /\ hpc[p] = "HandlePanic"
        /\ Len(hloc[p].ls) = 3
        /\ hloc[p].i = 1
        /\ hloc[p].invoked = <<hloc[p].ls[1]>>

\* The step is a write of the caller through a pointer it holds.
WritesStateStep(p) ==
    /\ stateHeap' # stateHeap /\ Len(stateHeap') = Len(stateHeap)
    /\ \E s \in DOMAIN stateHeap :
          CallerWritesState(p, s, stateHeap'[s].VehicleID, stateHeap'[s].Timestamp)
WritesEntryStep(p) ==
    /\ entryHeap' # entryHeap /\ Len(entryHeap') = Len(entryHeap)
    /\ ret[p].op = "Get" /\ ret[p].ok
    /\ CallerWritesEntry(p, entryHeap'[ret[p].e].UpdatedAt)

\* C14: once Update has returned, a change the caller makes to the state it
\* passed in changes neither what Get reports for any key nor what All
\* returns.
C14_StoredStateIsNotAliased ==
    [][\A p \in Callers :
          WritesStateStep(p) =>
              /\ ViewOf(stateHeap', entryHeap', maps'[StoreMap])
                     = ViewOf(stateHeap, entryHeap, maps[StoreMap])
              /\ ViewOf(stateHeap', entryHeap', CopyMap(maps'[StoreMap]))
                     = ViewOf(stateHeap, entryHeap, CopyMap(maps[StoreMap]))]_vars

\* What a caller sees through an entry pointer.
EntryView(sh, eh, e) == [state |-> sh[eh[e].State], at |-> eh[e].UpdatedAt]

\* C15: the entry Get returned keeps showing the state and UpdatedAt it had
\* over any later Update or Remove, and a change the caller makes to it leaves
\* what the store reports as it was.
C15_GetReturnsCopy ==
    [][\A p \in Callers :
          /\ (ret[p].op = "Get" /\ ret[p].ok /\ WriteStep) =>
                 EntryView(stateHeap', entryHeap', ret[p].e)
                     = EntryView(stateHeap, entryHeap, ret[p].e)
          /\ WritesEntryStep(p) =>
                 ViewOf(stateHeap', entryHeap', maps'[StoreMap])
                     = ViewOf(stateHeap, entryHeap, maps[StoreMap])]_vars

\* The callers inside a critical section of Update or Remove, and of Get, All
\* or ActiveVehicles.
InWriteSection ==
    {p \in Procs : pc[p] \in {"UpdateCheck", "UpdateStore", "UpdateUnlock",
                               "RemoveBody", "RemoveUnlock"}}
InReadSection ==
    {p \in Procs : pc[p] \in {"GetBody", "GetUnlock", "AllBody", "AllUnlock",
                               "ActiveVehiclesBody", "ActiveVehiclesUnlock"}}

\* C16: at most one caller is inside a critical section of Update or Remove,
\* and while one is, no caller is inside a critical section of Get, All or
\* ActiveVehicles; the mutex records exactly the callers that are inside.
C16_WritersExcludeEveryone ==
    /\ Cardinality(InWriteSection) <= 1
    /\ InWriteSection # {} => InReadSection = {}
    /\ InReadSection = mu.readers
    /\ InWriteSection = {p \in Procs : mu.writer = p}

\* C16 happens: a caller is inside Update between its staleness check and its
\* store while the other caller, having called Get, waits for the lock.
C16_Witness ==
    \E p, q \in Procs :
        /\ pc[p] = "UpdateStore"
        /\ pc[q] = "GetLock"
        /\ mu.writer = p

\* C17: under fair scheduling every call of Update, Get, All, ActiveVehicles
\* or Remove that has started returns, and when no caller is inside a method
\* the mutex is free.
C17_EveryCallReturns ==
    /\ \A p \in Procs : (pc[p] # "idle") ~> (pc[p] = "idle")
    /\ []((\A p \in Procs : pc[p] = "idle") =>
              (mu.writer = NoProc /\ mu.readers = {}))

\* C17 happens: an Update that was dropped as stale has returned, the mutex is
\* free again and the other caller is waiting for it.
C17_Witness ==
    \E p, q \in Procs, k \in Keys :
        /\ pc[p] = "idle" /\ pc[q] = "RemoveLock"
        /\ mu.writer = NoProc /\ mu.readers = {}
        /\ Len(applied[k]) = 2
        /\ TsOf(applied[k][2].st) < StoredTs(k)

\* The entry a key has according to the Update calls executed on that key
\* alone.
OwnHistoryEntry(k) ==
    [State |-> LastMax(applied[k]).st, UpdatedAt |-> LastMax(applied[k]).at]
KeyFollowsOwnHistory(k) ==
    /\ \A i \in DOMAIN applied[k] : stateHeap[applied[k][i].st].VehicleID = k
    /\ applied[k] # <<>> =>
           (k \in DOMAIN shadows /\ entryHeap[shadows[k]] = OwnHistoryEntry(k))

\* C18: an Update for a key leaves the presence, the state and the UpdatedAt
\* of every other key as they were, and after it the entry of each key is the
\* one determined by the calls made for that key alone.
C18_UpdatesOfOtherKeysAreIndependent ==
    [][\A p \in Callers :
          UpdateStep(p) =>
              /\ \A j \in Keys \ {IncomingKey} :
                    /\ Lookup(maps'[StoreMap], j) = Lookup(maps[StoreMap], j)
                    /\ j \in DOMAIN shadows =>
                           EntryView(stateHeap', entryHeap', shadows[j])
                               = EntryView(stateHeap, entryHeap, shadows[j])
                    /\ applied'[j] = applied[j]
              /\ \A k \in Keys : KeyFollowsOwnHistory(k)']_vars

\* C18 happens: a key was updated, and later the other key; the first key
\* still has the entry of its own update, older than the entry of the second.
C18_Witness ==
    \E k, j \in Keys :
        /\ k # j
        /\ k \in DOMAIN shadows /\ j \in DOMAIN shadows
        /\ entryHeap[shadows[k]].UpdatedAt < entryHeap[shadows[j]].UpdatedAt
        /\ shadows[k] < shadows[j]
        /\ entryHeap[shadows[k]] = OwnHistoryEntry(k)

\* C19: h.listeners is append-only. A step changes it only by appending the
\* listener of a Register call at its append statement, every Register call
\* passes that statement once before it returns (so the length counts the
\* Register calls that appended), and no step of Handle changes it; the list
\* before a step is a prefix of the list after it.
C19_ListenersAreAppendOnly ==
    [][/\ IsPrefix(listeners, listeners')
       /\ listeners' # listeners =>
              \E p \in Procs :
                  /\ hpc[p] = "RegisterAppend" /\ hpc'[p] = "RegisterUnlock"
                  /\ listeners' = Append(listeners, hloc[p].l)
       /\ \A p \in Procs :
              /\ (hpc[p] = "RegisterAppend" /\ hpc'[p] # hpc[p]) =>
                     (hpc'[p] = "RegisterUnlock" /\ Len(listeners') = Len(listeners) + 1)
              /\ (hpc'[p] = "RegisterUnlock" /\ hpc[p] # hpc'[p]) =>
                     hpc[p] = "RegisterAppend"
              /\ (hpc[p] \in {"RegisterLock", "RegisterAppend", "RegisterUnlock"}
                    /\ hpc'[p] = "idle") => hpc[p] = "RegisterUnlock"]_vars

\* C19 happens: three Register calls have returned, one of them before and two
\* after a Handle took its copy, and the list holds the three listeners with
\* the first where it was.
C19_Witness ==
    \E p, q \in Procs :
        /\ p # q /\ hpc[q] = "idle"
        /\ hpc[p] = "HandleDone"
        /\ Len(hloc[p].ls) = 1
        /\ Len(listeners) = 3
        /\ listeners[1] = hloc[p].ls[1]
        /\ listeners[2] # listeners[1]

\* The places of a Handle call.
InHandle == {"HandleLog", "HandleRLock", "HandleCopy", "HandleInvoke"} \cup AfterSnapshot

\* C21: overlapping Handle calls do not disturb each other. A step of one call
\* leaves the alert, the copy, the position and the invocations of every
\* other call as they were; each call invokes the next listener of its own
\* copy, keeps its own alert, and is about to return only when it has invoked
\* its whole copy in order.
C21_OverlappingHandlesAreIndependent ==
    [][\A p \in Procs :
          /\ \A q \in Procs \ {p} :
                (hpc[q] \in InHandle /\ hpc'[q] # hpc[q]) =>
                    (hloc'[p] = hloc[p] /\ hpc'[p] = hpc[p])
          /\ (hpc[p] = "HandleLoop" /\ hpc'[p] = "HandleInvoke") =>
                 /\ hloc[p].i = Len(hloc[p].invoked) + 1
                 /\ hloc'[p].invoked = Append(hloc[p].invoked, hloc[p].ls[hloc[p].i])
          /\ (hpc[p] \in InHandle /\ hpc'[p] \in InHandle) =>
                 hloc'[p].alert = hloc[p].alert
          /\ hpc'[p] = "HandleDone" => hloc'[p].invoked = hloc'[p].ls]_vars

\* C21 happens: two Handle calls for alerts of different severity are inside
\* listeners at the same time, one in the first and one in the second listener
\* of its copy, and the copies differ.
C21_Witness ==
    \E p, q \in Procs :
        /\ hpc[p] = "HandleInvoke" /\ hpc[q] = "HandleInvoke"
        /\ hloc[p].alert.Severity # hloc[q].alert.Severity
        /\ hloc[p].i = 1 /\ hloc[q].i = 2
        /\ Len(hloc[p].ls) < Len(hloc[q].ls)
        /\ hloc[q].invoked = SubSeq(hloc[q].ls, 1, 2)

\* The timestamps of the entries ever written for a key, deleted ones included.
EverStoredTs(k) ==
    {TsOf(entryHeap[e].State) : e \in {x \in DOMAIN entryHeap :
                                          stateHeap[entryHeap[x].State].VehicleID = k}}

\* C27: Remove forgets the timestamps of its key. An Update for a key without
\* an entry is stored whatever its timestamp, also when an entry with a
\* larger timestamp was stored for the key before a Remove.
C27_RemoveForgetsTimestamps ==
    [][\A p \in Callers :
          (UpdateStep(p) /\ IncomingKey \notin DOMAIN shadows) =>
              /\ IncomingKey \in DOMAIN maps'[StoreMap]
              /\ entryHeap'[maps'[StoreMap][IncomingKey]].State = Len(stateHeap')
              /\ entryHeap'[maps'[StoreMap][IncomingKey]].UpdatedAt = now]_vars

\* C27 happens: a key holds a state whose timestamp is below the timestamp of
\* an entry that was stored for the key earlier and removed.
C27_Witness ==
    \E k \in Keys :
        /\ k \in DOMAIN shadows
        /\ \E ts \in EverStoredTs(k) : ts > StoredTs(k)
        /\ Len(applied[k]) = 1

\* C28: h.mu is never held by a caller that is inside a listener, so whatever
\* the listeners do, also when one never returns, every Register that has
\* started returns and every Handle that has started gets to its listeners.
C28_NoLockHeldWhileListenersRun ==
    /\ [](\A p \in Procs :
             hpc[p] \in {"HandleLoop", "HandleInvoke", "HandleDone"} =>
                 (p \notin hmu.readers /\ hmu.writer # p))
    /\ \A p \in Procs :
          /\ (hpc[p] \in {"RegisterLock", "RegisterAppend", "RegisterUnlock"})
                 ~> (hpc[p] = "idle")
          /\ (hpc[p] \in {"HandleLog", "HandleRLock", "HandleCopy", "HandleRUnlock"})
                 ~> (hpc[p] = "HandleLoop")

\* C28 happens: while a caller is inside the first listener of its Handle, the
\* other caller has run two Register calls to completion.
C28_Witness ==
    \E p, q \in Procs :
        /\ hpc[p] = "HandleInvoke" /\ hloc[p].i = 1
        /\ hpc[q] = "idle"
        /\ Len(listeners) = Len(hloc[p].ls) + 2
        /\ hmu.writer = NoProc /\ hmu.readers = {}

\* The step hands the message in flight to handleState, to handleAlert.
HandleStateStep == inbox # NoMsg /\ inbox' = NoMsg /\ TopicMatches(WildcardStateTopic, inbox.topic)
HandleAlertStep == inbox # NoMsg /\ inbox' = NoMsg /\ TopicMatches(WildcardAlertTopic, inbox.topic)

\* Some vehicle is stored, some listener is registered.
StoreAndListeners == DOMAIN shadows # {} /\ Len(listeners) > 0

\* C22: a message whose payload does not deserialize is dropped: on the state
\* topic it leaves the store as it was (no Update), on the alert topic it
\* starts no Handle and so invokes no listener.
C22_MalformedMessagesAreDropped ==
    [][/\ (HandleStateStep /\ inbox.payload \in Malformed) =>
              /\ UNCHANGED <<stateHeap, entryHeap, maps, applied>>
              /\ client'.log = "bad state message"
       /\ (HandleAlertStep /\ inbox.payload \in Malformed) =>
              /\ UNCHANGED <<listeners, hmu, hpc, hloc>>
              /\ client'.log = "bad alert message"
       /\ \A p \in Callers :
              (hpc[p] = "idle" /\ hpc'[p] = "HandleLog") =>
                  (HandleAlertStep /\ inbox.payload \notin Malformed)]_vars

\* C22 happens: with a vehicle stored and a listener registered, the server
\* has just dropped a malformed alert message.
C22_Witness ==
    /\ StoreAndListeners
    /\ inbox = NoMsg
    /\ client.log = "bad alert message"
    /\ \A p \in Procs : hpc[p] = "idle"

\* C23: once the server is connected, a well-formed state message handed to
\* the wildcard state handler makes exactly one Update, of the state decoded
\* from its payload; a Get of that vehicle then finds an entry, holding that
\* very state unless the stored state has a newer timestamp.
C23_StateMessageIsApplied ==
    [][(HandleStateStep /\ inbox.payload.kind = "object") =>
          LET k == inbox.payload.vehicle_id
              s == Len(stateHeap) + 1
          IN  /\ client.connected
              /\ Len(stateHeap') = s
              /\ stateHeap'[s].VehicleID = k
              /\ stateHeap'[s].Timestamp = inbox.payload.timestamp
              /\ stateHeap'[s].Speed = inbox.payload.speed
              /\ applied' = [applied EXCEPT ![k] = Append(@, [st |-> s, at |-> now])]
              /\ Lookup(maps'[StoreMap], k).ok
              /\ LET e == entryHeap'[Lookup(maps'[StoreMap], k).e]
                 IN  IF k \in DOMAIN shadows /\ StoredTs(k) > inbox.payload.timestamp
                     THEN e = entryHeap[shadows[k]]
                     ELSE e.State = s]_vars

\* C23 happens: the connected server has applied two state messages of one
\* vehicle, the second one older than the first, which stays stored.
C23_Witness ==
    /\ client.connected /\ inbox = NoMsg
    /\ \E k \in Keys :
          /\ Len(applied[k]) = 2
          /\ TsOf(applied[k][2].st) < TsOf(applied[k][1].st)
          /\ k \in DOMAIN shadows
          /\ entryHeap[shadows[k]].State = applied[k][1].st

\* C24: a well-formed alert message handed to the wildcard alert handler
\* starts one Handle of the decoded alert, whatever its severity, and that
\* Handle invokes every listener registered on the server's Handler exactly
\* once, in registration order.
C24_AlertMessageReachesEveryListener ==
    [][\A p \in Callers :
          /\ (HandleAlertStep /\ inbox.payload.kind = "object") =>
                 /\ hpc[p] = "idle" /\ hpc'[p] = "HandleLog"
                 /\ hloc'[p].alert.Severity = inbox.payload.severity
                 /\ hloc'[p].atStart = listeners
                 /\ hloc'[p].invoked = <<>>
          /\ (hpc[p] # "HandleDone" /\ hpc'[p] = "HandleDone") =>
                 /\ hloc'[p].invoked = listeners
                 /\ hloc'[p].atStart = listeners
          /\ (hpc[p] \in InHandle) => listeners' = listeners]_vars

\* C24 happens: the Handle started by an alert message of severity 0 has
\* invoked all of three registered listeners.
C24_Witness ==
    \E p \in Callers :
        /\ client.connected
        /\ hpc[p] = "HandleDone"
        /\ hloc[p].alert.Severity = 0
        /\ Len(listeners) = MaxListeners
        /\ hloc[p].invoked = listeners

\* C29: the store is keyed by the vehicle_id of the payload, the topic plays
\* no part: a state message that arrives on the state topic of vehicle a and
\* names vehicle b in its payload is an Update of b's entry (created, or
\* overwritten unless b's stored state is newer) and leaves a's entry, present
\* or not, as it was.
C29_PayloadNamesTheVehicle ==
    [][\A a, b \in Keys :
          (/\ HandleStateStep /\ inbox.payload.kind = "object"
           /\ a # b
           /\ inbox.topic = StateTopic(a)
           /\ inbox.payload.vehicle_id = b) =>
              /\ (a \in DOMAIN maps'[StoreMap]) <=> (a \in DOMAIN shadows)
              /\ a \in DOMAIN shadows =>
                     /\ maps'[StoreMap][a] = shadows[a]
                     /\ entryHeap'[shadows[a]] = entryHeap[shadows[a]]
                     /\ stateHeap'[entryHeap[shadows[a]].State]
                            = stateHeap[entryHeap[shadows[a]].State]
              /\ applied'[a] = applied[a]
              /\ b \in DOMAIN maps'[StoreMap]
              /\ stateHeap'[Len(stateHeap')].VehicleID = b
              /\ IF b \in DOMAIN shadows /\ StoredTs(b) > inbox.payload.timestamp
                 THEN maps'[StoreMap][b] = shadows[b]
                 ELSE entryHeap'[maps'[StoreMap][b]].State = Len(stateHeap')]_vars

\* C29 happens: with vehicle a stored and b not, the handler is given a
\* message that came on a's state topic and names b.
C29_Witness ==
    \E a, b \in Keys :
        /\ a # b
        /\ DOMAIN shadows = {a}
        /\ inbox.topic = StateTopic(a)
        /\ inbox.payload.kind = "object"
        /\ inbox.payload.vehicle_id = b
        /\ WildcardStateTopic \in client.subscribed

\* The step is a call of SendControl that returned to its caller.
SendControlStep ==
    /\ sent' \in {"nil", "publish error", "marshal error"}
    /\ sent' # sent \/ client'.published # client.published

\* C25: a SendControl that gets past the encoding of its command asks the
\* client to publish exactly one message, at QoS 1 on the control topic of the
\* vehicle the command names, and returns the error of that publish token; no
\* SendControl, successful or not, changes the store or the listeners.
C25_SendControlPublishesOnce ==
    [][/\ client'.published # client.published =>
              /\ SendControlStep
              /\ sent' \in {"nil", "publish error"}
              /\ Len(client'.published) = Len(client.published) + 1
              /\ IsPrefix(client.published, client'.published)
              /\ LET m == client'.published[Len(client'.published)]
                 IN  /\ m.topic = <<"v1", "vehicle", m.payload.vehicle_id, "control">>
                     /\ m.payload.vehicle_id \in Keys
                     /\ m.qos = 1
       /\ (sent' \in {"nil", "publish error"} /\ sent' # sent) =>
              client'.published # client.published
       /\ SendControlStep =>
              /\ UNCHANGED <<stateHeap, entryHeap, maps, applied>>
              /\ UNCHANGED <<listeners, hmu, hpc, hloc>>
              /\ client'.subscribed = client.subscribed]_vars

\* C25 happens: with a vehicle stored and a listener registered, two commands
\* for different vehicles were published and the last call returned nil.
C25_Witness ==
    /\ StoreAndListeners
    /\ sent = "nil"
    /\ Len(client.published) = 2
    /\ client.published[1].topic # client.published[2].topic

\* The publishState calls so far that got to Publish.
Published(attempts) == SelectSeq(attempts, LAMBDA o : o # "marshal error")

\* C26: Run calls publishState once for every tick it takes from the ticker;
\* each call publishes one message at QoS 0 on the state topic of the
\* configured vehicle (none when the state cannot be encoded) and, error or
\* not, Run goes back to its select. Run returns only after the context was
\* cancelled, with the context's error, and once the context is cancelled a
\* connected Run does return.
C26_RunPublishesUntilCancelled ==
    /\ [](agent.pc \in {"select", "publishState", "returned"} =>
            /\ agent.received
                  = Len(agent.attempts) + (IF agent.pc = "publishState" THEN 1 ELSE 0)
            /\ agent.received <= agent.ticks
            /\ Len(agent.published) = Len(Published(agent.attempts))
            /\ \A i \in DOMAIN agent.published :
                  /\ agent.published[i].topic = <<"v1", "vehicle", agent.VehicleID, "state">>
                  /\ agent.published[i].qos = 0)
    /\ [][(agent.pc = "publishState" /\ agent'.pc \notin {"publishState", "panic"})
            => agent'.pc = "select"]_vars
    /\ [](agent.pc = "returned" => (agent.cancelled /\ agent.err = "ctx.Err()"))
    /\ (agent.cancelled /\ agent.connected /\ agent.pc \in {"select", "publishState"})
          ~> (agent.pc = "returned")

\* C26 happens: Run took three ticks, published after a publish error and
\* after an encoding error, and returned once the context was cancelled.
C26_Witness ==
    /\ agent.pc = "returned"
    /\ agent.attempts = <<"publish error", "marshal error", "nil">>
    /\ Len(agent.published) = 2

\* The state a well-formed payload stands for, by its fields.
Content(payload) ==
    [VehicleID |-> payload.vehicle_id, Timestamp |-> payload.timestamp,
     Speed |-> payload.speed]

\* The message in flight was applied before; it is the one stored now.
IsRedelivery ==
    /\ inbox.payload.kind = "object"
    /\ \E i \in DOMAIN applied[inbox.payload.vehicle_id] :
          stateHeap[applied[inbox.payload.vehicle_id][i].st] = Content(inbox.payload)
IsStoredNow ==
    /\ inbox.payload.vehicle_id \in DOMAIN shadows
    /\ stateHeap[entryHeap[shadows[inbox.payload.vehicle_id]].State] = Content(inbox.payload)

\* The entry stored for k after the step, and the state it holds.
EntryAfter(k) == entryHeap'[maps'[StoreMap][k]]
StateAfter(k) == stateHeap'[entryHeap'[maps'[StoreMap][k]].State]

\* C30 as stated: a redelivered message leaves the stored state as it was;
\* when it is not the message stored now (it was superseded) it changes
\* nothing, observedAt included, and when it is the one stored now it
\* refreshes observedAt.
C30_RedeliveryIsIdempotent ==
    [][(HandleStateStep /\ IsRedelivery) =>
          LET k == inbox.payload.vehicle_id
          IN  /\ StateAfter(k) = stateHeap[entryHeap[shadows[k]].State]
              /\ IF IsStoredNow
                 THEN EntryAfter(k).UpdatedAt = now
                 ELSE EntryAfter(k) = entryHeap[shadows[k]]]_vars

\* C30 amended: a redelivery of the message stored now leaves the stored state
\* as it was and refreshes observedAt; a redelivery with a timestamp strictly
\* below the stored one changes nothing; a redelivery of a message that was
\* replaced by another one of the same timestamp becomes the stored state
\* again and refreshes observedAt.
C30_RedeliveryByTimestamp ==
    [][(HandleStateStep /\ IsRedelivery) =>
          LET k == inbox.payload.vehicle_id
          IN  /\ k \in DOMAIN shadows
              /\ IsStoredNow =>
                     /\ StateAfter(k) = stateHeap[entryHeap[shadows[k]].State]
                     /\ EntryAfter(k).UpdatedAt = now
              /\ inbox.payload.timestamp < StoredTs(k) =>
                     /\ maps'[StoreMap] = shadows
                     /\ EntryAfter(k) = entryHeap[shadows[k]]
                     /\ StateAfter(k) = stateHeap[entryHeap[shadows[k]].State]
              /\ (inbox.payload.timestamp = StoredTs(k) /\ ~IsStoredNow) =>
                     /\ StateAfter(k) = Content(inbox.payload)
                     /\ StateAfter(k) # stateHeap[entryHeap[shadows[k]].State]
                     /\ EntryAfter(k).UpdatedAt = now]_vars

\* C30 happens: a message was applied, replaced by one of the same timestamp
\* and another speed, and then applied again at a later time: it is stored,
\* with the later observedAt.
C30_Witness ==
    \E k \in Keys :
        /\ Len(applied[k]) = 3
        /\ stateHeap[applied[k][1].st] = stateHeap[applied[k][3].st]
        /\ stateHeap[applied[k][2].st] # stateHeap[applied[k][1].st]
        /\ TsOf(applied[k][2].st) = TsOf(applied[k][1].st)
        /\ applied[k][2].at < applied[k][3].at
        /\ entryHeap[shadows[k]].State = applied[k][3].st
        /\ entryHeap[shadows[k]].UpdatedAt = applied[k][3].at

\* C31: through Update and Remove alone, every key of the store maps to an
\* entry that exists and holds an existing state whose VehicleID is that key,
\* and no entry is stored under two keys.
C31_StoreIsKeyedByVehicleID ==
    /\ \A k \in DOMAIN shadows :
          /\ shadows[k] # Nil
          /\ shadows[k] \in DOMAIN entryHeap
          /\ entryHeap[shadows[k]].State # Nil
          /\ entryHeap[shadows[k]].State \in DOMAIN stateHeap
          /\ stateHeap[entryHeap[shadows[k]].State].VehicleID = k
    /\ \A k1, k2 \in DOMAIN shadows : shadows[k1] = shadows[k2] => k1 = k2
    /\ DOMAIN shadows \subseteq Keys

\* C31 happens: one vehicle was stored and removed, and the other one is
\* stored now, under the second entry the Manager made.
C31_Witness ==
    \E k \in Keys :
        /\ DOMAIN shadows = {k}
        /\ Len(entryHeap) = 2
        /\ shadows[k] = 2
        /\ stateHeap[entryHeap[1].State].VehicleID # k

\* The stored vehicles observed within the last d units of time.
ActiveAt(d) == {k \in DOMAIN shadows : entryHeap[shadows[k]].UpdatedAt > now - d}

\* C32: what ActiveVehicles returns lists no vehicle twice and only keys of
\* the store (the keys All() would return in that state), hence none that was
\* removed and not updated since; and an Update that is dropped as stale
\* leaves the set of active vehicles, for every maxAge, as it was.
C32_ActiveVehiclesAreStored ==
    [][\A p \in Callers :
          /\ ActiveVehiclesStep(p) =>
                 /\ \A i, j \in DOMAIN ret'[p].ids :
                        ret'[p].ids[i] = ret'[p].ids[j] => i = j
                 /\ Range(ret'[p].ids) \subseteq DOMAIN CopyMap(shadows)
                 /\ Range(ret'[p].ids) = ActiveAt(ret'[p].maxAge)
                 /\ \A k \in Range(ret'[p].ids) : applied[k] # <<>>
          /\ (UpdateStep(p) /\ IncomingKey \in DOMAIN shadows
                /\ StoredTs(IncomingKey) > IncomingTs) =>
                 \A d \in Durations : ActiveAt(d)' = ActiveAt(d)]_vars

\* C32 happens: ActiveVehicles returned the one stored vehicle while the
\* entry of a removed vehicle is still recent enough to count as active.
C32_Witness ==
    \E p \in Callers, k \in Keys :
        /\ ret[p].op = "ActiveVehicles"
        /\ ret[p].ids = <<k>>
        /\ DOMAIN shadows = {k}
        /\ ActiveAt(ret[p].maxAge) = {k}
        /\ \E e \in DOMAIN entryHeap :
              /\ stateHeap[entryHeap[e].State].VehicleID # k
              /\ entryHeap[e].UpdatedAt > now - ret[p].maxAge

\* The step is a connect event: ConnectWithClient, or the on-connect callback
\* after the connection was made or made again.
ConnectEvent == client.link # "up" /\ client'.link = "up"

\* C33: every connect event passes both wildcard filters to Subscribe,
\* whichever of them the broker refuses and in whichever order the map is
\* visited; a refusal is logged, the filters the broker accepted are
\* subscribed, and nothing but the client changes.
C33_EveryConnectSubscribesBoth ==
    [][ConnectEvent =>
          /\ client'.attempted = {<<"v1", "vehicle", "+", "state">>,
                                  <<"v1", "vehicle", "+", "alert">>}
          /\ client.subscribed \subseteq client'.subscribed
          /\ client'.subscribed \subseteq client.subscribed \cup client'.attempted
          /\ ~(client'.attempted \subseteq client'.subscribed) =>
                 client'.log = "subscribe error"
          /\ client'.connected
          /\ UNCHANGED <<stateHeap, entryHeap, maps, applied, listeners, inbox>>]_vars

\* C33 happens: the server is connected with vehicles stored and listeners
\* registered; both filters were passed to Subscribe although the broker has
\* refused the alert filter, which was logged.
C33_Witness ==
    /\ client.link = "up"
    /\ client.log = "subscribe error"
    /\ client.attempted = Topics
    /\ client.subscribed = {WildcardStateTopic}
    /\ StoreAndListeners

\* C34: the shadows and the listeners do not depend on the connection: a step
\* that changes the link to the broker or the subscriptions (connection lost,
\* connected again, Disconnect) leaves every entry, every state and the
\* listeners as they were, and a key leaves the store only in a Remove of it.
C34_ShadowsOutliveTheConnection ==
    [][/\ (client'.link # client.link \/ client'.subscribed # client.subscribed
               \/ client'.attempted # client.attempted) =>
              /\ UNCHANGED <<stateHeap, entryHeap, maps, applied>>
              /\ UNCHANGED <<listeners, hmu, hpc, hloc>>
       /\ \A k \in DOMAIN shadows :
              k \notin DOMAIN maps'[StoreMap] =>
                  /\ client' = client
                  /\ \E p \in Callers : Remove(p, k)]_vars

\* C34 happens: the connection was lost and then closed with Disconnect, and
\* the vehicles stored and the listeners registered are still there.
C34_Witness ==
    /\ client.link = "closed"
    /\ client.log = "connection lost"
    /\ DOMAIN shadows = Keys
    /\ Len(listeners) = MaxListeners

\* The files of a configuration with all three paths set are not all usable.
BadFiles(files) ==
    /\ files.CertFile # "" /\ files.KeyFile # "" /\ files.CAFile # ""
    /\ files.CertFile # "valid" \/ files.KeyFile # "valid" \/ files.CAFile # "valid"

\* C35: a certificate, key or CA file that cannot be loaded or parsed makes
\* TLSConfig return an error and no config; and with all three paths set and
\* such a file among them, Connect of the Server and of the Agent returns
\* that error, makes no client and attempts no connection, so no endpoint
\* that names three files is ever connected without mutual TLS 1.3.
C35_TLSFailuresAreReported ==
    /\ [](\A files \in Files :
             (files.CertFile # "valid" \/ files.KeyFile # "valid"
                 \/ files.CAFile # "valid") =>
                 (TLSConfig(files).err # "" /\ TLSConfig(files).cfg = NoConfig))
    /\ [](BadFiles(client.cfg) =>
             /\ ~client.connected /\ client.link = "down"
             /\ client.tls = NoConfig /\ client.subscribed = {}
             /\ client.err # "nil")
    /\ [](BadFiles(agent.cfg) =>
             /\ ~agent.connected /\ agent.link = "down"
             /\ agent.tls = NoConfig
             /\ agent.connectErr # "nil")
    /\ [][/\ (BadFiles(client.cfg) /\ client'.err # client.err) =>
               client'.err = "control-center tls config: " \o TLSConfig(client.cfg).err
        /\ (BadFiles(agent.cfg) /\ agent'.connectErr # agent.connectErr) =>
               agent'.connectErr
                  = "vehicle agent tls config: " \o TLSConfig(agent.cfg).err]_vars
    /\ []((client.connected /\ UsesTLS(client.cfg)) =>
             (client.tls.MinVersion = "TLS13" /\ client.tls.RootCAs = "ca"
              /\ client.tls.ClientAuth = "RequireAndVerifyClientCert"))
    /\ []((agent.connected /\ UsesTLS(agent.cfg)) =>
             (agent.tls.MinVersion = "TLS13" /\ agent.tls.RootCAs = "ca"))

\* C35 happens: the Server's CA file does not parse and the Agent's key file
\* is missing; both have called Connect and hold its error, neither has a
\* client.
C35_Witness ==
    /\ client.cfg = [CertFile |-> "valid", KeyFile |-> "valid", CAFile |-> "garbage"]
    /\ client.err = "control-center tls config: security: failed to parse CA certificate"
    /\ ~client.connected
    /\ agent.cfg.KeyFile = "missing" /\ UsesTLS(agent.cfg)
    /\ agent.connectErr = "vehicle agent tls config: tls: load key pair"
    /\ ~agent.connected
====
